---------------------------- MODULE Spec2Model ----------------------------
(***************************************************************************)
(* DontGetDistracted: the background service worker (licence generation,   *)
(* src/unnamed/part_002) with the collaborators that write the same store  *)
(* (settings page, popup).  Strings are JavaScript strings; a character is *)
(* a string of length one.                                                 *)
(***************************************************************************)
EXTENDS Integers, Sequences, FiniteSets, Bags, TLC

(***************************************************************************)
(* String helpers                                                          *)
(***************************************************************************)
CharAt(s, i) == SubSeq(s, i, i)

StartsWith(s, p) == Len(s) >= Len(p) /\ SubSeq(s, 1, Len(p)) = p

\* first position >= from whose character is in cs; Len(s)+1 when there is none
RECURSIVE IndexOfAny(_, _, _)
IndexOfAny(s, cs, from) ==
    IF from > Len(s) THEN Len(s) + 1
    ELSE IF CharAt(s, from) \in cs THEN from
    ELSE IndexOfAny(s, cs, from + 1)

(***************************************************************************)
(* Pattern matcher: wildcardToRegExp builds the source text of a regular   *)
(* expression, new RegExp compiles it, regex.test runs it.                 *)
(***************************************************************************)
EscapedChars == {".", "+", "^", "$", "{", "}", "(", ")", "|", "[", "]", "\\"}

\* pattern.replace(/[.+^${}()|[\]\\]/g, "\\$&")
RECURSIVE EscapeRegExp(_)
EscapeRegExp(p) ==
    IF p = "" THEN ""
    ELSE (IF Head(p) \in EscapedChars THEN "\\" \o Head(p) ELSE Head(p))
         \o EscapeRegExp(Tail(p))

\* escaped.replace(/\*/g, ".*")
\* mutant: the stars are left as they are
StarToDotStarKeeps(e) == e

RECURSIVE StarToDotStar(_)
StarToDotStar(e) ==
    IF e = "" THEN ""
    ELSE (IF Head(e) = "*" THEN ".*" ELSE Head(e)) \o StarToDotStar(Tail(e))

RegexSource(pattern) == "^" \o StarToDotStar(EscapeRegExp(pattern)) \o "$"

\* what new RegExp gives for a source it rejects (it throws a SyntaxError)
Invalid == [ok |-> FALSE, atoms |-> <<>>]

\* The body of the expression between "^" and "$" as a list of atoms, each
\* with its quantifier; Invalid where new RegExp throws a SyntaxError
\* (a quantifier with nothing to repeat).
RECURSIVE ParseAtoms(_, _, _)
ParseAtoms(r, i, acc) ==
    IF i > Len(r) THEN [ok |-> TRUE, atoms |-> acc]
    ELSE
      LET c == CharAt(r, i) IN
      IF c \in {"*", "?"} THEN Invalid
      ELSE
        LET esc  == c = "\\"
            atom == IF esc THEN [kind |-> "lit", ch |-> CharAt(r, i + 1)]
                    ELSE IF c = "." THEN [kind |-> "any", ch |-> ""]
                    ELSE [kind |-> "lit", ch |-> c]
            j    == IF esc THEN i + 2 ELSE i + 1
            qc   == IF j <= Len(r) THEN CharAt(r, j) ELSE ""
            q    == IF qc = "*" THEN "star" ELSE IF qc = "?" THEN "opt" ELSE "one"
            k    == IF q = "one" THEN j ELSE j + 1
            \* a "?" right after a quantifier only makes it lazy
            lazy == q # "one" /\ k <= Len(r) /\ CharAt(r, k) = "?"
            n    == IF lazy THEN k + 1 ELSE k
        IN ParseAtoms(r, n, Append(acc, [kind |-> atom.kind, ch |-> atom.ch, q |-> q]))

LineTerminators == {"\n", "\r"}

AtomAccepts(a, c) ==
    IF a.kind = "any" THEN c \notin LineTerminators ELSE c = a.ch

\* does the anchored expression accept the whole of s
RECURSIVE MatchAtoms(_, _)
MatchAtoms(atoms, s) ==
    IF atoms = <<>> THEN s = ""
    ELSE
      LET a    == Head(atoms)
          step == s # "" /\ AtomAccepts(a, Head(s))
      IN CASE a.q = "one"  -> step /\ MatchAtoms(Tail(atoms), Tail(s))
           [] a.q = "opt"  -> MatchAtoms(Tail(atoms), s)
                              \/ (step /\ MatchAtoms(Tail(atoms), Tail(s)))
           [] a.q = "star" -> MatchAtoms(Tail(atoms), s)
                              \/ (step /\ MatchAtoms(atoms, Tail(s)))

\* the compiled matcher: Invalid (new RegExp throws) or [ok, atoms]
wildcardToRegExp(pattern) ==
    LET src == RegexSource(pattern)
    IN ParseAtoms(SubSeq(src, 2, Len(src) - 1), 1, <<>>)

RegexTest(regex, s) == MatchAtoms(regex.atoms, s)

(***************************************************************************)
(* new URL(url): host and pathname of an absolute URL                      *)
(***************************************************************************)
Letters == {"a","b","c","d","e","f","g","h","i","j","k","l","m",
            "n","o","p","q","r","s","t","u","v","w","x","y","z"}
Digits == {"0","1","2","3","4","5","6","7","8","9"}
SchemeChars == Letters \cup Digits \cup {"+", "-", "."}
SpecialSchemes == {"http", "https", "ftp", "ws", "wss", "file"}

RECURSIVE AllIn(_, _)
AllIn(s, cs) == s = "" \/ (Head(s) \in cs /\ AllIn(Tail(s), cs))

RECURSIVE SkipSlashes(_)
SkipSlashes(s) ==
    IF s # "" /\ Head(s) \in {"/", "\\"} THEN SkipSlashes(Tail(s)) ELSE s

\* [ok, host, pathname]; ok = FALSE where new URL throws a TypeError
ParseUrl(url) ==
    LET colon  == IndexOfAny(url, {":"}, 1)
        scheme == SubSeq(url, 1, colon - 1)
        bad    == [ok |-> FALSE, host |-> "", pathname |-> ""]
    IN
    IF colon > Len(url) \/ scheme = "" \/ Head(scheme) \notin Letters
       \/ ~AllIn(scheme, SchemeChars)
    THEN bad
    ELSE
      LET rest    == SubSeq(url, colon + 1, Len(url))
          special == scheme \in SpecialSchemes
          hasAuth == special \/ StartsWith(rest, "//")
          afterS  == IF special THEN SkipSlashes(rest)
                     ELSE IF hasAuth THEN SubSeq(rest, 3, Len(rest)) ELSE rest
          hostEnd == IF hasAuth THEN IndexOfAny(afterS, {"/", "\\", "?", "#"}, 1) ELSE 1
          host    == SubSeq(afterS, 1, hostEnd - 1)
          tail    == SubSeq(afterS, hostEnd, Len(afterS))
          pathEnd == IndexOfAny(tail, {"?", "#"}, 1)
          path    == SubSeq(tail, 1, pathEnd - 1)
      IN
      IF special /\ scheme # "file" /\ host = "" THEN bad
      ELSE IF hasAuth /\ ~AllIn(host, Letters \cup Digits \cup {".", "-", ":", "_"}) THEN bad
      ELSE [ok |-> TRUE, host |-> host,
            pathname |-> IF special /\ path = "" THEN "/" ELSE path]

(***************************************************************************)
(* JavaScript values.  Null stands for null; no rule id is this string.    *)
(* Absent stands for a key that is not in the store (read as undefined).   *)
(***************************************************************************)
Null == "<null>"
Absent == [absent |-> TRUE]

\* truthiness of a string-or-null value
TruthyStr(v) == v # Null /\ v # ""

(***************************************************************************)
(* Defaults of the background script                                       *)
(***************************************************************************)
DefaultThreshold == 10

\* mutant: the built-in threshold is 5
DefaultSettingsOfFive ==
    [threshold    |-> 5,
     trackedSites |-> << [pattern |-> "youtube.com/shorts/*", enabled |-> TRUE, id |-> "youtube_shorts"],
                         [pattern |-> "tiktok.com/*",         enabled |-> TRUE, id |-> "tiktok"],
                         [pattern |-> "instagram.com/*",      enabled |-> TRUE, id |-> "instagram"] >>]

DEFAULT_SETTINGS ==
    [threshold    |-> DefaultThreshold,
     trackedSites |-> << [pattern |-> "youtube.com/shorts/*", enabled |-> TRUE, id |-> "youtube_shorts"],
                         [pattern |-> "tiktok.com/*",         enabled |-> TRUE, id |-> "tiktok"],
                         [pattern |-> "instagram.com/*",      enabled |-> TRUE, id |-> "instagram"] >>]

\* the value DEFAULT_STATE is constructed with
InitialDefaultState == [currentCount |-> 0, lastSiteType |-> Null]

(***************************************************************************)
(* Bounds of the model and the inputs the environment draws from           *)
(***************************************************************************)
MaxEvents == 3

Tabs == {1, 2}

\* URLs the navigation-event source reports
NavUrls == {"https://www.youtube.com/shorts/1", "https://youtube.com/shorts/2",
            "https://tiktok.com/x", "https://example.org/", "chrome://extensions/"}

\* what the user does on the settings page before saving: the text typed
\* into the threshold field and what is done to the Enabled boxes
SettingsInputs == {[value |-> -1, edit |-> "keep"],
                   [value |-> 2,  edit |-> "first_only"],
                   [value |-> 3,  edit |-> "keep"]}

NoUrl == ""

VARIABLES
    store,          \* chrome.storage.local: settings, currentCount/lastSiteType
    license,        \* chrome.storage.local key whop_license
    DEFAULT_STATE,  \* the module-level object DEFAULT_STATE of the background
    tabUrls,        \* the Map tabUrls: tab id -> last processed URL
    tasks,          \* bag of background handlers that wait on their getStorage callback
    installed,      \* progress of the onInstalled listener
    events,         \* number of events the environment has produced
    last,           \* history: what the latest handler step did
    run,            \* history: the current run of sequential same-type visits
    closedTabs,     \* history: the tabs whose tabs.onRemoved event has been handled
    call,           \* what a scenario was started with: the arguments of a call of a
                    \* pure function of the script and its result, or a prior state
    page,           \* the settings page: the rows of its rule list and its clock
    out             \* effects outside the store: alert tabs, answers to messages

vars == <<store, license, DEFAULT_STATE, tabUrls, tasks, installed, events, last, run,
          closedTabs, call, page, out>>

(***************************************************************************)
(* Settings page: what saveSettings writes                                 *)
(***************************************************************************)
\* Math.max(1, parseInt(value, 10) || DEFAULT_SETTINGS.threshold)
SavedThreshold(value) ==
    LET p == IF value # 0 THEN value ELSE DefaultThreshold
    IN IF p > 1 THEN p ELSE 1

\* the rows of the page as loadSettings renders the stored settings
RenderedRows(settings) ==
    LET sites == IF settings = Absent THEN DEFAULT_SETTINGS.trackedSites
                 ELSE settings.trackedSites
    IN [n \in 1..Len(sites) |-> [pattern |-> sites[n].pattern, enabled |-> sites[n].enabled]]

\* the user's clicks on the Enabled boxes
EditRows(rows, edit) ==
    IF edit = "keep" THEN rows
    ELSE [n \in 1..Len(rows) |-> [rows[n] EXCEPT !.enabled = (n = 1)]]

\* `custom_${Date.now()}_${index}` (index counts from 0)
CustomId(now, index) == "custom_" \o ToString(now) \o "_" \o ToString(index)

RECURSIVE NonEmptyPatterns(_)
NonEmptyPatterns(sites) ==
    IF sites = <<>> THEN <<>>
    ELSE IF Head(sites).pattern # "" THEN <<Head(sites)>> \o NonEmptyPatterns(Tail(sites))
    ELSE NonEmptyPatterns(Tail(sites))

\* saveSettings: the rule made of each row of the page, the id looked up in
\* the stored list at the index of the row
RowSites(rows, old, now) ==
    [n \in 1..Len(rows) |->
        [pattern |-> rows[n].pattern,
         enabled |-> rows[n].enabled,
         id      |-> IF n <= Len(old.trackedSites) /\ old.trackedSites[n].id # ""
                     THEN old.trackedSites[n].id
                     ELSE CustomId(now, n - 1)]]

\* the settings object saveSettings writes
NewSettings(threshold, rows, oldSettings, now) ==
    LET old   == IF oldSettings = Absent THEN DEFAULT_SETTINGS ELSE oldSettings
        kept  == NonEmptyPatterns(RowSites(rows, old, now))
    IN [threshold    |-> threshold,
        trackedSites |-> IF Len(kept) > 0 THEN kept ELSE DEFAULT_SETTINGS.trackedSites]

\* settings the page has saved over the installed defaults
SavedSettings(in) ==
    NewSettings(SavedThreshold(in.value),
                EditRows(RenderedRows(DEFAULT_SETTINGS), in.edit), DEFAULT_SETTINGS, 0)

\* the rule lists the store can hold in this model
ModelSiteLists ==
    {DEFAULT_SETTINGS.trackedSites} \cup {SavedSettings(in).trackedSites : in \in SettingsInputs}

(***************************************************************************)
(* Pure parts of the background script                                     *)
(***************************************************************************)
\* mutant: the expiry date of the licence is not looked at
hasValidLicenseIgnoresExpiry(licenseData) ==
    /\ licenseData # Absent
    /\ licenseData.valid

\* LicenseManager.hasValidLicense on the stored licence (the background
\* revalidation it may start does not change its answer)
hasValidLicense(licenseData) ==
    /\ licenseData # Absent
    /\ licenseData.valid
    /\ ~licenseData.expired

\* { ...DEFAULT_SETTINGS, ...(data.settings || {}), trackedSites: ... }: a field
\* the stored object lacks is taken from the defaults; a stored list, empty or
\* not, is truthy and is kept
MergedSettings(stored) ==
    IF stored = Absent THEN DEFAULT_SETTINGS
    ELSE [threshold    |-> IF "threshold" \in DOMAIN stored
                           THEN stored.threshold ELSE DEFAULT_SETTINGS.threshold,
          trackedSites |-> IF "trackedSites" \in DOMAIN stored
                           THEN stored.trackedSites ELSE DEFAULT_SETTINGS.trackedSites]

\* what the callback of getStorage receives for the store contents data
getStorage(data, defaultState) ==
    [settings |-> MergedSettings(data.settings),
     state    |-> IF data.state = Absent
                  THEN [currentCount |-> defaultState.currentCount,
                        lastSiteType |-> defaultState.lastSiteType]
                  ELSE [currentCount |-> data.state.currentCount,
                        lastSiteType |-> IF TruthyStr(data.state.lastSiteType)
                                         THEN data.state.lastSiteType
                                         ELSE defaultState.lastSiteType]]

\* mutant: the host is tested as it is only
BareHostKeepsWww(host) == host

\* host.replace(/^www\./, "")
BareHost(host) ==
    IF StartsWith(host, "www.") THEN SubSeq(host, 5, Len(host)) ELSE host

\* mutant: disabled rules are tested like enabled ones
RECURSIVE FirstMatchIgnoresEnabled(_, _, _)
FirstMatchIgnoresEnabled(sites, urlStr, altUrlStr) ==
    IF sites = <<>> THEN Null
    ELSE
      LET site == Head(sites) IN
      IF site.pattern = "" THEN FirstMatchIgnoresEnabled(Tail(sites), urlStr, altUrlStr)
      ELSE
        LET regex == wildcardToRegExp(site.pattern) IN
        IF ~regex.ok THEN Null
        ELSE IF RegexTest(regex, urlStr) \/ RegexTest(regex, altUrlStr) THEN site.id
        ELSE FirstMatchIgnoresEnabled(Tail(sites), urlStr, altUrlStr)

\* the loop of getSiteType; an exception of wildcardToRegExp leaves the loop
\* through the catch block and null is returned
RECURSIVE FirstMatch(_, _, _)
FirstMatch(sites, urlStr, altUrlStr) ==
    IF sites = <<>> THEN Null
    ELSE
      LET site == Head(sites) IN
      IF ~site.enabled \/ site.pattern = "" THEN FirstMatch(Tail(sites), urlStr, altUrlStr)
      ELSE
        LET regex == wildcardToRegExp(site.pattern) IN
        IF ~regex.ok THEN Null
        ELSE IF RegexTest(regex, urlStr) \/ RegexTest(regex, altUrlStr) THEN site.id
        ELSE FirstMatch(Tail(sites), urlStr, altUrlStr)

\* mutant: a URL that does not parse is tested as the string it is
getSiteTypeRaw(url, trackedSites) ==
    IF url = "" THEN Null
    ELSE
      LET u == ParseUrl(url) IN
      IF ~u.ok THEN FirstMatch(trackedSites, url, url)
      ELSE FirstMatch(trackedSites, u.host \o u.pathname, BareHost(u.host) \o u.pathname)

getSiteType(url, trackedSites) ==
    IF url = "" THEN Null
    ELSE
      LET u == ParseUrl(url) IN
      IF ~u.ok THEN Null
      ELSE FirstMatch(trackedSites, u.host \o u.pathname, BareHost(u.host) \o u.pathname)

\* getSiteType, with the answers for the URLs and rule lists of this model
\* computed once
SiteTypeTable ==
    [url \in NavUrls, sites \in ModelSiteLists |-> getSiteType(url, sites)]

Classify(url, sites) ==
    IF url \in NavUrls /\ sites \in ModelSiteLists
    THEN SiteTypeTable[url, sites] ELSE getSiteType(url, sites)

\* settings.threshold || DEFAULT_SETTINGS.threshold
EffectiveThreshold(settings) ==
    IF settings.threshold # 0 THEN settings.threshold ELSE DEFAULT_SETTINGS.threshold

\* mutant: no URL is taken for a browser URL
IsBrowserUrlNever(url) == FALSE

IsBrowserUrl(url) ==
    StartsWith(url, "chrome") \/ StartsWith(url, "about:") \/ StartsWith(url, "edge:")

\* mutant: the count is zeroed at the threshold but the site type is kept
StreakStepKeepsType(state, siteType, threshold) ==
    IF TruthyStr(siteType)
    THEN LET c == IF state.lastSiteType = siteType THEN state.currentCount + 1 ELSE 1
         IN IF c >= threshold
            THEN [state |-> [currentCount |-> 0, lastSiteType |-> siteType], fired |-> TRUE]
            ELSE [state |-> [currentCount |-> c, lastSiteType |-> siteType], fired |-> FALSE]
    ELSE [state |-> [currentCount |-> 0, lastSiteType |-> Null], fired |-> FALSE]

\* mutant: the alert is raised but the streak is not reset
StreakStepNoReset(state, siteType, threshold) ==
    IF TruthyStr(siteType)
    THEN LET c == IF state.lastSiteType = siteType THEN state.currentCount + 1 ELSE 1
         IN [state |-> [currentCount |-> c, lastSiteType |-> siteType],
             fired |-> c >= threshold]
    ELSE [state |-> [currentCount |-> 0, lastSiteType |-> Null], fired |-> FALSE]

\* mutant: the threshold is compared with > instead of >=
StreakStepStrict(state, siteType, threshold) ==
    IF TruthyStr(siteType)
    THEN LET c == IF state.lastSiteType = siteType THEN state.currentCount + 1 ELSE 1
         IN IF c > threshold
            THEN [state |-> [currentCount |-> 0, lastSiteType |-> Null], fired |-> TRUE]
            ELSE [state |-> [currentCount |-> c, lastSiteType |-> siteType], fired |-> FALSE]
    ELSE [state |-> [currentCount |-> 0, lastSiteType |-> Null], fired |-> FALSE]

\* mutant: every tracked visit restarts the count at 1
StreakStepRestarts(state, siteType, threshold) ==
    IF TruthyStr(siteType)
    THEN IF 1 >= threshold
         THEN [state |-> [currentCount |-> 0, lastSiteType |-> Null], fired |-> TRUE]
         ELSE [state |-> [currentCount |-> 1, lastSiteType |-> siteType], fired |-> FALSE]
    ELSE [state |-> [currentCount |-> 0, lastSiteType |-> Null], fired |-> FALSE]

\* mutant: a visit of another tracked type goes on counting
StreakStepIgnoresType(state, siteType, threshold) ==
    IF TruthyStr(siteType)
    THEN LET c == state.currentCount + 1
         IN IF c >= threshold
            THEN [state |-> [currentCount |-> 0, lastSiteType |-> Null], fired |-> TRUE]
            ELSE [state |-> [currentCount |-> c, lastSiteType |-> siteType], fired |-> FALSE]
    ELSE [state |-> [currentCount |-> 0, lastSiteType |-> Null], fired |-> FALSE]

\* mutant: a non-tracked visit leaves the streak alone
StreakStepKeepsStreak(state, siteType, threshold) ==
    IF TruthyStr(siteType)
    THEN LET c == IF state.lastSiteType = siteType THEN state.currentCount + 1 ELSE 1
         IN IF c >= threshold
            THEN [state |-> [currentCount |-> 0, lastSiteType |-> Null], fired |-> TRUE]
            ELSE [state |-> [currentCount |-> c, lastSiteType |-> siteType], fired |-> FALSE]
    ELSE [state |-> state, fired |-> FALSE]

\* the body of the getStorage callback of handleUrl between the
\* classification and saveStorage: the next streak state, and whether
\* triggerAlert is called
StreakStep(state, siteType, threshold) ==
    IF TruthyStr(siteType)
    THEN LET c == IF state.lastSiteType = siteType THEN state.currentCount + 1 ELSE 1
         IN IF c >= threshold
            THEN [state |-> [currentCount |-> 0, lastSiteType |-> Null], fired |-> TRUE]
            ELSE [state |-> [currentCount |-> c, lastSiteType |-> siteType], fired |-> FALSE]
    ELSE IF state.lastSiteType # Null
         THEN [state |-> [currentCount |-> 0, lastSiteType |-> Null], fired |-> FALSE]
         ELSE [state |-> state, fired |-> FALSE]

\* mutant: the gate records the URL but never suppresses
DedupGateNeverSuppresses(map, tabId, url) ==
    [process |-> TRUE, map |-> [map EXCEPT ![tabId] = url]]

\* the deduplication of handleUrl: whether the event goes on, and the map after
DedupGate(map, tabId, url) ==
    IF map[tabId] = url
    THEN [process |-> FALSE, map |-> map]
    ELSE [process |-> TRUE, map |-> [map EXCEPT ![tabId] = url]]

EmptyTabUrls == [t \in Tabs |-> NoUrl]

\* mutant: reset_counter leaves the map alone
ControlEffectKeepsMap(type, state, map) ==
    [state |-> [currentCount |-> 0, lastSiteType |-> Null], map |-> map]

\* mutant: alert_acknowledged clears the map as reset_counter does
ControlEffectAckClears(type, state, map) ==
    [state |-> [currentCount |-> 0, lastSiteType |-> Null], map |-> EmptyTabUrls]

\* the getStorage callbacks of reset_counter and alert_acknowledged: the
\* state that is saved and the map tabUrls afterwards
ControlEffect(type, state, map) ==
    [state |-> [currentCount |-> 0, lastSiteType |-> Null],
     map   |-> IF type = "reset_counter" THEN EmptyTabUrls ELSE map]



(***************************************************************************)
(* State                                                                   *)
(***************************************************************************)
Idle == [currentCount |-> 0, lastSiteType |-> Null]

\* history: what the latest step of a handler did.  read is the streak state
\* its getStorage delivered, mapBefore the map tabUrls a control message found,
\* again whether the gate let through a pair that the latest reset had erased,
\* readOk whether its store read succeeded, wrote the streak state it handed
\* to saveStorage, before the streak the store held when the write came back
NoStep ==
    [op |-> "none", read |-> Idle, site |-> Null, threshold |-> 0, fired |-> FALSE,
     mapBefore |-> EmptyTabUrls, again |-> FALSE, readOk |-> TRUE, wrote |-> Idle,
     before |-> Idle]

NoRun == [site |-> Null, threshold |-> 0, k |-> 0, fires |-> 0, dups |-> 0]

ValidLicense == [valid |-> TRUE, expired |-> FALSE]

\* no pure function is being called
NoCall == [fn |-> "none"]

\* the settings page is not open
NoPage == [open |-> FALSE]

\* no alert tab has been asked for and no message has arrived: the calls of
\* triggerAlert, the alert tabs opened, the calls of chrome.tabs.create that
\* failed, the messages received and the answers sent
NoOut == [calls |-> 0, opened |-> 0, failed |-> 0, asked |-> 0, replies |-> <<>>]

\* the contents of the store as saveStorage writes them
Saved(settings, state) == [settings |-> settings, state |-> state]

\* A licensed installation with no handler running: either fresh (nothing
\* stored, onInstalled not yet run) or with settings saved by the settings
\* page and the streak Idle.
Init ==
    /\ \/ /\ store = [settings |-> Absent, state |-> Absent]
          /\ installed = "new"
       \/ /\ \E in \in SettingsInputs : store = Saved(SavedSettings(in), Idle)
          /\ installed = "done"
    /\ license = ValidLicense
    /\ DEFAULT_STATE = InitialDefaultState
    /\ tabUrls = EmptyTabUrls
    /\ tasks = EmptyBag
    /\ events = 0
    /\ last = NoStep
    /\ run = NoRun
    /\ closedTabs = {}
    /\ page = NoPage
    /\ out = NoOut
    /\ call = NoCall

Task(kind, tabId, url) ==
    [kind |-> kind, tab |-> tabId, url |-> url, snap |-> getStorage(store, DEFAULT_STATE)]

(***************************************************************************)
(* Installation                                                            *)
(***************************************************************************)
\* onInstalled: chrome.storage.local.get(["settings"], ...)
OnInstalledRead ==
    /\ installed = "new"
    /\ installed' = IF store.settings = Absent THEN "write" ELSE "done"
    /\ UNCHANGED <<store, license, DEFAULT_STATE, tabUrls, tasks, events, last, run,
                   closedTabs, call, page, out>>

\* onInstalled: the callback that found no settings writes the defaults
OnInstalledWrite ==
    /\ installed = "write"
    /\ installed' = "done"
    /\ store' = Saved(DEFAULT_SETTINGS,
                      [currentCount |-> DEFAULT_STATE.currentCount,
                       lastSiteType |-> DEFAULT_STATE.lastSiteType])
    /\ last' = [NoStep EXCEPT !.op = "installed"]
    /\ run' = NoRun
    /\ UNCHANGED <<license, DEFAULT_STATE, tabUrls, tasks, events, closedTabs, call, page, out>>

(***************************************************************************)
(* Navigation events: handleUrl                                            *)
(***************************************************************************)
\* handleUrl(url, tabId) up to its call of getStorage: licence check, browser
\* URLs, deduplication.  The await of the licence check is an unobservable
\* delay of the event while the stored licence does not change.
handleUrl(url, tabId) ==
    LET gate == DedupGate(tabUrls, tabId, url)
    IN
    /\ IF ~hasValidLicense(license) THEN
            /\ last' = [NoStep EXCEPT !.op = "nolicense"]
            /\ UNCHANGED <<tabUrls, tasks, run>>
       ELSE IF IsBrowserUrl(url) THEN
            /\ last' = [NoStep EXCEPT !.op = "browser_url"]
            /\ UNCHANGED <<tabUrls, tasks, run>>
       ELSE IF ~gate.process THEN
            /\ last' = [NoStep EXCEPT !.op = "duplicate"]
            /\ run' = IF run # NoRun THEN [run EXCEPT !.dups = 1] ELSE run
            /\ tabUrls' = gate.map
            /\ UNCHANGED tasks
       ELSE
            /\ last' = [NoStep EXCEPT !.op = "gate_passed",
                                      !.again = /\ last.op = "reset_counter"
                                                /\ last.mapBefore[tabId] = url]
            /\ tabUrls' = gate.map
            /\ tasks' = tasks (+) SetToBag({Task("nav", tabId, url)})
            /\ UNCHANGED run
    /\ UNCHANGED <<store, license, DEFAULT_STATE, installed, closedTabs, call, page, out>>

\* tabs.onUpdated / tabs.onActivated report a URL of a tab and call handleUrl
NavEvent(tabId, url) ==
    /\ events < MaxEvents
    /\ events' = events + 1
    /\ handleUrl(url, tabId)

\* history: the run of visits processed one after the other (each wrote the
\* store it had read), all of one site type under one threshold, that
\* started from Idle
NextRun(t, siteType, threshold, fired) ==
    LET sequential == store = Saved(t.snap.settings, t.snap.state)
        f == IF fired THEN 1 ELSE 0
    IN
    IF sequential /\ TruthyStr(siteType) /\ run # NoRun /\ run.site = siteType
       /\ run.threshold = threshold
    THEN [run EXCEPT !.k = @ + 1, !.fires = @ + f]
    ELSE IF sequential /\ TruthyStr(siteType) /\ t.snap.state = Idle
    THEN [site |-> siteType, threshold |-> threshold, k |-> 1, fires |-> f, dups |-> 0]
    ELSE NoRun

\* mutant: the callback works on the store as it is when the callback runs
NavCallbackRereads(t) ==
    LET now       == getStorage(store, DEFAULT_STATE)
        siteType  == Classify(t.url, now.settings.trackedSites)
        threshold == EffectiveThreshold(now.settings)
        r         == StreakStep(now.state, siteType, threshold)
    IN
    /\ t.kind = "nav"
    /\ store' = Saved(now.settings, r.state)
    /\ tasks' = tasks (-) SetToBag({t})
    /\ last' = [NoStep EXCEPT !.op = "visit", !.read = now.state, !.site = siteType,
                              !.threshold = threshold, !.fired = r.fired]
    /\ run' = NoRun
    /\ UNCHANGED <<license, DEFAULT_STATE, tabUrls, installed, events, closedTabs, call, page, out>>

\* the getStorage callback of handleUrl; triggerAlert, when called, opens
\* the alert tab (the licence is still the one handleUrl has checked)
NavCallback(t) ==
    LET settings  == t.snap.settings
        siteType  == Classify(t.url, settings.trackedSites)
        threshold == EffectiveThreshold(settings)
        r         == StreakStep(t.snap.state, siteType, threshold)
    IN
    /\ t.kind = "nav"
    /\ store' = Saved(settings, r.state)
    /\ tasks' = tasks (-) SetToBag({t})
    /\ last' = [NoStep EXCEPT !.op = "visit", !.read = t.snap.state, !.site = siteType,
                              !.threshold = threshold, !.fired = r.fired]
    /\ run' = NextRun(t, siteType, threshold, r.fired)
    /\ UNCHANGED <<license, DEFAULT_STATE, tabUrls, installed, events, closedTabs, call, page, out>>

\* tabs.onRemoved
TabRemoved(tabId) ==
    /\ events < MaxEvents
    /\ events' = events + 1
    /\ tabUrls' = [tabUrls EXCEPT ![tabId] = NoUrl]
    /\ last' = [NoStep EXCEPT !.op = "tab_removed"]
    /\ closedTabs' = closedTabs \cup {tabId}
    /\ UNCHANGED <<store, license, DEFAULT_STATE, tasks, installed, run, call, page, out>>

(***************************************************************************)
(* Control messages: runtime.onMessage                                     *)
(***************************************************************************)
MessageTypes == {"reset_counter", "test_alert", "alert_acknowledged"}

\* mutant: test_alert also resets the streak and the map, as reset_counter does
MessageEventTestResets(type) ==
    /\ events < MaxEvents
    /\ events' = events + 1
    /\ IF ~hasValidLicense(license) THEN
            /\ last' = [NoStep EXCEPT !.op = "refused"]
            /\ UNCHANGED <<tasks, store, tabUrls>>
       ELSE IF type = "test_alert" THEN
            /\ last' = [NoStep EXCEPT !.op = type, !.fired = TRUE]
            /\ store' = [store EXCEPT !.state = [currentCount |-> 0, lastSiteType |-> Null]]
            /\ tabUrls' = [t \in Tabs |-> NoUrl]
            /\ UNCHANGED tasks
       ELSE
            /\ last' = last
            /\ tasks' = tasks (+) SetToBag({Task(type, 0, NoUrl)})
            /\ UNCHANGED <<store, tabUrls>>
    /\ UNCHANGED <<license, DEFAULT_STATE, installed, run, closedTabs, call, page, out>>

\* a message arrives: licence check, then test_alert calls triggerAlert and
\* answers, the other two call getStorage
MessageEvent(type) ==
    /\ events < MaxEvents
    /\ events' = events + 1
    /\ IF ~hasValidLicense(license) THEN
            /\ last' = [NoStep EXCEPT !.op = "refused"]
            /\ UNCHANGED tasks
       ELSE IF type = "test_alert" THEN
            /\ last' = [NoStep EXCEPT !.op = type, !.fired = TRUE]
            /\ UNCHANGED tasks
       ELSE
            /\ last' = last
            /\ tasks' = tasks (+) SetToBag({Task(type, 0, NoUrl)})
    /\ UNCHANGED <<store, license, DEFAULT_STATE, tabUrls, installed, run, closedTabs, call, page, out>>

\* the getStorage callback of reset_counter / alert_acknowledged, with the
\* saveStorage callback that answers { ok: true }
MessageCallback(t) ==
    LET e == ControlEffect(t.kind, t.snap.state, tabUrls)
    IN
    /\ t.kind \in {"reset_counter", "alert_acknowledged"}
    /\ store' = Saved(t.snap.settings, e.state)
    /\ tabUrls' = e.map
    /\ tasks' = tasks (-) SetToBag({t})
    /\ last' = [NoStep EXCEPT !.op = t.kind, !.read = t.snap.state,
                              !.mapBefore = tabUrls]
    /\ run' = NoRun
    /\ UNCHANGED <<license, DEFAULT_STATE, installed, events, closedTabs, call, page, out>>

(***************************************************************************)
(* Specification                                                           *)
(***************************************************************************)
Next ==
    \/ OnInstalledRead
    \/ OnInstalledWrite
    \/ \E tabId \in Tabs, url \in NavUrls : NavEvent(tabId, url)
    \/ \E t \in BagToSet(tasks) : NavCallback(t)
    \/ \E tabId \in Tabs : TabRemoved(tabId)
    \/ \E type \in MessageTypes : MessageEvent(type)
    \/ \E t \in BagToSet(tasks) : MessageCallback(t)

Spec == Init /\ [][Next]_vars

(***************************************************************************)
(* Navigation events with the licence check as a step of its own           *)
(***************************************************************************)
\* URLs reported while tabs are being closed
AwaitUrls == {"https://tiktok.com/x", "https://example.org/"}

\* handleUrl has been called and waits for licenseManager.hasValidLicense()
AwaitTask(tabId, url) == [kind |-> "await", tab |-> tabId, url |-> url, snap |-> Absent]

\* tabs.onUpdated / tabs.onActivated call handleUrl for a tab that is open;
\* handleUrl runs up to its await
NavArrive(tabId, url) ==
    /\ events < MaxEvents
    /\ tabId \notin closedTabs
    /\ events' = events + 1
    /\ tasks' = tasks (+) SetToBag({AwaitTask(tabId, url)})
    /\ UNCHANGED <<store, license, DEFAULT_STATE, tabUrls, installed, last, run,
                   closedTabs, call, page, out>>

\* handleUrl goes on after the await: licence, browser URLs, deduplication,
\* then the call of getStorage
NavResume(t) ==
    LET gate == DedupGate(tabUrls, t.tab, t.url)
        rest == tasks (-) SetToBag({t})
    IN
    /\ t.kind = "await"
    /\ IF ~hasValidLicense(license) THEN
            /\ last' = [NoStep EXCEPT !.op = "nolicense"]
            /\ tasks' = rest
            /\ UNCHANGED <<tabUrls, run>>
       ELSE IF IsBrowserUrl(t.url) THEN
            /\ last' = [NoStep EXCEPT !.op = "browser_url"]
            /\ tasks' = rest
            /\ UNCHANGED <<tabUrls, run>>
       ELSE IF ~gate.process THEN
            /\ last' = [NoStep EXCEPT !.op = "duplicate"]
            /\ run' = IF run # NoRun THEN [run EXCEPT !.dups = 1] ELSE run
            /\ tabUrls' = gate.map
            /\ tasks' = rest
       ELSE
            /\ last' = [NoStep EXCEPT !.op = "gate_passed"]
            /\ tabUrls' = gate.map
            /\ tasks' = rest (+) SetToBag({Task("nav", t.tab, t.url)})
            /\ UNCHANGED run
    /\ UNCHANGED <<store, license, DEFAULT_STATE, installed, events, closedTabs, call, page, out>>

AwaitNext ==
    \/ \E tabId \in Tabs, url \in AwaitUrls : NavArrive(tabId, url)
    \/ \E t \in BagToSet(tasks) : NavResume(t)
    \/ \E t \in BagToSet(tasks) : NavCallback(t)
    \/ \E tabId \in Tabs \ closedTabs : TabRemoved(tabId)

SpecAwait == Init /\ [][AwaitNext]_vars

(***************************************************************************)
(* Two navigation events of two tabs whose store round-trips overlap       *)
(***************************************************************************)
\* largest count of the streak the two events find
RaceMaxCount == 4

RaceSettings == {DEFAULT_SETTINGS} \cup {SavedSettings(in) : in \in SettingsInputs}

\* the streak states handleUrl can have persisted under the settings
RaceStates(settings) ==
    LET sites == settings.trackedSites
        ids   == {sites[i].id : i \in {j \in DOMAIN sites : sites[j].enabled}}
        top   == IF EffectiveThreshold(settings) - 1 < RaceMaxCount
                 THEN EffectiveThreshold(settings) - 1 ELSE RaceMaxCount
    IN {Idle} \cup {[currentCount |-> c, lastSiteType |-> id] : c \in 1..top, id \in ids}

RaceInit ==
    /\ \E settings \in RaceSettings : \E prior \in RaceStates(settings) :
          /\ store = Saved(settings, prior)
          /\ call = [fn |-> "prior", prior |-> prior]
    /\ installed = "done"
    /\ license = ValidLicense
    /\ DEFAULT_STATE = InitialDefaultState
    /\ tabUrls = EmptyTabUrls
    /\ tasks = EmptyBag
    /\ events = 0
    /\ last = NoStep
    /\ run = NoRun
    /\ closedTabs = {}
    /\ page = NoPage
    /\ out = NoOut

\* tab 1 then tab 2 report a URL, both handlers call getStorage, and only
\* then the two callbacks run, in either order
RaceNext ==
    \/ events = 0 /\ \E url \in NavUrls : NavEvent(1, url)
    \/ events = 1 /\ \E url \in NavUrls : NavEvent(2, url)
    \/ events = 2 /\ \E t \in BagToSet(tasks) : NavCallback(t)

SpecRace == RaceInit /\ [][RaceNext]_vars

(***************************************************************************)
(* Navigation events with URLs that new URL() does not take                *)
(***************************************************************************)
OddUrls == {"tiktok.com/x", "http://", "not a url", "https://tiktok.com/x"}

\* tab 1 reports up to two URLs on a persisted streak
OddNext ==
    \/ events < 2 /\ \E url \in OddUrls : NavEvent(1, url)
    \/ \E t \in BagToSet(tasks) : NavCallback(t)

SpecOdd == RaceInit /\ [][OddNext]_vars

(***************************************************************************)
(* Calls of the pattern matcher and of the classifier                      *)
(***************************************************************************)
\* patterns the user can type; candidate strings as host + pathname can
\* give them, and a few more
MatchPatterns ==
    {"", "ab", "a.b", "a+b", "a?", "?", "(a)", "a|b", "[ab]", "a$", "^a", "a{2}", "a\\b",
     "a*b", "*", "a*", "*b", "a*b*c", "a**b", "a.*", "*.b", "a*?"}

MatchCandidates ==
    {"", "a", "b", "ab", "ba", "aa", "aab", "axb", "axyzb", "abc", "acb", "abcbc", "axbxc",
     "a.b", "a.", "a.x", "x.b", ".b", "a+b", "a?", "?", "(a)", "a|b", "[ab]", "a$", "^a",
     "a{2}", "a\\b", "a*b"}

\* longest rule list handed to the classifier
MaxRules == 3

ClassifyRules ==
    {[pattern |-> "tiktok.com/*",         enabled |-> TRUE,  id |-> "tiktok"],
     [pattern |-> "tiktok.com/*",         enabled |-> FALSE, id |-> "tiktok_off"],
     [pattern |-> "",                     enabled |-> TRUE,  id |-> "blank"],
     [pattern |-> "*",                    enabled |-> TRUE,  id |-> "any"],
     [pattern |-> "youtube.com/shorts/*", enabled |-> TRUE,  id |-> "youtube_shorts"],
     \* a rule stored without id: site.id is undefined
     [pattern |-> "tiktok.com/x",         enabled |-> TRUE,  id |-> ""]}

ClassifyUrls ==
    {"https://tiktok.com/x", "https://www.tiktok.com/x", "https://example.org/",
     "https://www.youtube.com/shorts/1", "tiktok.com/x"}

WwwHosts == {"tiktok.com", "youtube.com", "www.x.org", "example.org"}

WwwPaths == {"", "/", "/x", "/shorts/1"}

\* the pattern of the one rule, written for host h
WwwPatterns(h) == {h \o "/*", h \o "/x", h \o "/shorts/*", "www." \o h \o "/*", "other.net/*"}

TestCalls ==
    {[fn |-> "test", pattern |-> p, candidate |-> c, done |-> FALSE, result |-> "none"] :
        p \in MatchPatterns, c \in MatchCandidates}

GetSiteTypeCalls ==
    {[fn |-> "getSiteType", url |-> u, sites |-> sites, done |-> FALSE, result |-> Null] :
        u \in ClassifyUrls,
        sites \in UNION {[1..n -> ClassifyRules] : n \in 0..MaxRules}}

WwwCalls ==
    UNION {{[fn |-> "www", host |-> h, path |-> path, done |-> FALSE,
             sites |-> <<[pattern |-> p, enabled |-> TRUE, id |-> "rule"]>>,
             withWww |-> Null, bare |-> Null] : path \in WwwPaths, p \in WwwPatterns(h)} :
           h \in WwwHosts}

CallsInit ==
    /\ call \in TestCalls \cup GetSiteTypeCalls \cup WwwCalls
    /\ store = Saved(DEFAULT_SETTINGS, Idle)
    /\ installed = "done"
    /\ license = ValidLicense
    /\ DEFAULT_STATE = InitialDefaultState
    /\ tabUrls = EmptyTabUrls
    /\ tasks = EmptyBag
    /\ events = 0
    /\ last = NoStep
    /\ run = NoRun
    /\ closedTabs = {}
    /\ page = NoPage
    /\ out = NoOut

\* wildcardToRegExp(pattern).test(candidate)
CallTest ==
    /\ call.fn = "test"
    /\ ~call.done
    /\ LET regex == wildcardToRegExp(call.pattern)
       IN call' = [call EXCEPT !.done = TRUE,
                               !.result = IF ~regex.ok THEN "throws"
                                          ELSE IF RegexTest(regex, call.candidate)
                                               THEN "accepts" ELSE "rejects"]
    /\ UNCHANGED <<store, license, DEFAULT_STATE, tabUrls, tasks, installed, events, last,
                   run, closedTabs, page, out>>

\* getSiteType(url, trackedSites)
CallGetSiteType ==
    /\ call.fn = "getSiteType"
    /\ ~call.done
    /\ call' = [call EXCEPT !.done = TRUE, !.result = getSiteType(call.url, call.sites)]
    /\ UNCHANGED <<store, license, DEFAULT_STATE, tabUrls, tasks, installed, events, last,
                   run, closedTabs, page, out>>

\* getSiteType for the URL with host www.h and for the URL with host h
CallGetSiteTypeWww ==
    /\ call.fn = "www"
    /\ ~call.done
    /\ call' = [call EXCEPT
                  !.done = TRUE,
                  !.withWww = getSiteType("https://www." \o call.host \o call.path, call.sites),
                  !.bare    = getSiteType("https://" \o call.host \o call.path, call.sites)]
    /\ UNCHANGED <<store, license, DEFAULT_STATE, tabUrls, tasks, installed, events, last,
                   run, closedTabs, page, out>>

CallsNext ==
    \/ CallTest
    \/ CallGetSiteType
    \/ CallGetSiteTypeWww

SpecCalls == CallsInit /\ [][CallsNext]_vars

(***************************************************************************)
(* Visits of one tab on stored settings of any shape                       *)
(***************************************************************************)
\* nextSites.splice(index, 1) (index counts from 0)
RemoveAt(sites, index) ==
    IF index >= 0 /\ index < Len(sites)
    THEN [n \in 1..(Len(sites) - 1) |-> IF n <= index THEN sites[n] ELSE sites[n + 1]]
    ELSE sites

\* the settings object removeSite(index) of the settings page writes
removeSite(settings, index) ==
    LET old == IF settings = Absent THEN DEFAULT_SETTINGS ELSE settings
    IN [old EXCEPT !.trackedSites = RemoveAt(old.trackedSites, index)]

\* longest sequence of visits of the tab
MaxVisits == 11

\* what the store can hold under the key settings: nothing; an object that
\* lacks a field; the defaults after the three Remove buttons of the settings
\* page; thresholds below 1, which the settings page does not write itself;
\* settings saved by the settings page
LoadSettings ==
    {Absent,
     [trackedSites |-> DEFAULT_SETTINGS.trackedSites],
     [threshold |-> 2],
     removeSite(removeSite(removeSite(DEFAULT_SETTINGS, 0), 0), 0),
     [DEFAULT_SETTINGS EXCEPT !.threshold = 0],
     [DEFAULT_SETTINGS EXCEPT !.threshold = -1],
     SavedSettings([value |-> 3, edit |-> "keep"])}

LoadUrls == {"https://www.youtube.com/shorts/1", "https://youtube.com/shorts/2",
             "https://example.org/"}

\* the streak is Idle; call keeps the settings the scenario starts with
LoadInit ==
    /\ \E settings \in LoadSettings :
          /\ store = [settings |-> settings,
                      state |-> IF settings = Absent THEN Absent ELSE Idle]
          /\ installed = IF settings = Absent THEN "new" ELSE "done"
          /\ call = [fn |-> "load", settings |-> settings]
    /\ license = ValidLicense
    /\ DEFAULT_STATE = InitialDefaultState
    /\ tabUrls = EmptyTabUrls
    /\ tasks = EmptyBag
    /\ events = 0
    /\ last = NoStep
    /\ run = NoRun
    /\ closedTabs = {}
    /\ page = NoPage
    /\ out = NoOut

\* tab 1 reports a URL once the handler of its previous URL has finished
LoadVisit(url) ==
    /\ tasks = EmptyBag
    /\ events < MaxVisits
    /\ events' = events + 1
    /\ handleUrl(url, 1)

LoadNext ==
    \/ OnInstalledRead
    \/ OnInstalledWrite
    \/ \E url \in LoadUrls : LoadVisit(url)
    \/ \E t \in BagToSet(tasks) : NavCallback(t)

SpecLoad == LoadInit /\ [][LoadNext]_vars

(***************************************************************************)
(* Handlers with each asynchronous call as a step that can fail            *)
(***************************************************************************)
\* largest number of events (visits of tab 1 and messages) of a scenario
MaxFaultEvents == 3

\* threshold 1 with the three default rules; threshold 2 with YouTube Shorts only
FaultSettings ==
    {SavedSettings([value |-> -1, edit |-> "keep"]),
     SavedSettings([value |-> 2, edit |-> "first_only"])}

\* the licence is valid or none is stored
FaultInit ==
    /\ \E settings \in FaultSettings : store = Saved(settings, Idle)
    /\ license \in {ValidLicense, Absent}
    /\ installed = "done"
    /\ DEFAULT_STATE = InitialDefaultState
    /\ tabUrls = EmptyTabUrls
    /\ tasks = EmptyBag
    /\ events = 0
    /\ last = NoStep
    /\ run = NoRun
    /\ closedTabs = {}
    /\ call = NoCall
    /\ page = NoPage
    /\ out = NoOut

\* what getStorage hands to its callback: the merged store contents, or on
\* lastError the objects DEFAULT_SETTINGS and DEFAULT_STATE themselves
Delivered(t, readOk) ==
    IF readOk THEN t.snap ELSE [settings |-> DEFAULT_SETTINGS, state |-> DEFAULT_STATE]

\* saveStorage has called chrome.storage.local.set with the payload; reply is
\* the message its callback answers, 0 when it has no callback
SaveTask(settings, state, reply) ==
    [kind |-> "save", snap |-> Saved(settings, state), reply |-> reply]

\* triggerAlert has been called, by handleUrl or for test_alert, and waits for
\* licenseManager.hasValidLicense()
AlertTask(n, caller) == [kind |-> "alert", n |-> n, caller |-> caller]

\* runtime.onMessage has called licenseManager.hasValidLicense()
MessageTask(id, type) == [kind |-> "message", id |-> id, type |-> type]

\* sendResponse({ ok }) for message id
Reply(id, ok) == [out EXCEPT !.replies = Append(@, [id |-> id, ok |-> ok])]

\* tab 1 reports a URL
FaultVisit(url) ==
    /\ events < MaxFaultEvents
    /\ events' = events + 1
    /\ handleUrl(url, 1)

\* the getStorage callback of handleUrl up to its call of saveStorage.  On a
\* failed read state is the object DEFAULT_STATE, and what the callback
\* assigns to state.currentCount and state.lastSiteType stays in it.
NavCallbackIo(t, readOk) ==
    LET got       == Delivered(t, readOk)
        siteType  == Classify(t.url, got.settings.trackedSites)
        threshold == EffectiveThreshold(got.settings)
        r         == StreakStep(got.state, siteType, threshold)
        alert     == IF r.fired THEN SetToBag({AlertTask(out.calls + 1, "handleUrl")}) ELSE EmptyBag
    IN
    /\ t.kind = "nav"
    /\ DEFAULT_STATE' = IF readOk THEN DEFAULT_STATE ELSE r.state
    /\ tasks' = ((tasks (-) SetToBag({t})) (+) alert)
                   (+) SetToBag({SaveTask(got.settings, r.state, 0)})
    /\ out' = IF r.fired THEN [out EXCEPT !.calls = @ + 1] ELSE out
    /\ last' = [NoStep EXCEPT !.op = IF readOk THEN "callback" ELSE "callback_read_failed",
                              !.read = got.state, !.site = siteType,
                              !.threshold = threshold, !.fired = r.fired,
                              !.readOk = readOk, !.wrote = r.state]
    /\ run' = NoRun
    /\ UNCHANGED <<store, license, tabUrls, installed, events, closedTabs, call, page>>

\* mutant: a write that failed is issued again
SaveDoneRetries(t, ok) ==
    /\ t.kind = "save"
    /\ store' = IF ok THEN t.snap ELSE store
    /\ tasks' = IF ok THEN tasks (-) SetToBag({t}) ELSE tasks
    /\ out' = IF t.reply # 0 /\ ok THEN Reply(t.reply, TRUE) ELSE out
    /\ last' = [last EXCEPT !.op = IF t.reply = 0
                                   THEN (IF ok THEN "saved" ELSE "save_failed")
                                   ELSE (IF ok THEN "answered" ELSE "answered_save_failed"),
                            !.before = IF store.state = Absent THEN Idle ELSE store.state]
    /\ UNCHANGED <<license, DEFAULT_STATE, tabUrls, installed, events, run, closedTabs,
                   call, page>>

\* mutant: the callback of saveStorage is not called when the write failed
SaveDoneSilentOnError(t, ok) ==
    /\ t.kind = "save"
    /\ store' = IF ok THEN t.snap ELSE store
    /\ tasks' = tasks (-) SetToBag({t})
    /\ out' = IF t.reply # 0 /\ ok THEN Reply(t.reply, TRUE) ELSE out
    /\ last' = [last EXCEPT !.op = IF t.reply = 0
                                   THEN (IF ok THEN "saved" ELSE "save_failed")
                                   ELSE (IF ok THEN "answered" ELSE "answered_save_failed"),
                            !.before = IF store.state = Absent THEN Idle ELSE store.state]
    /\ UNCHANGED <<license, DEFAULT_STATE, tabUrls, installed, events, run, closedTabs,
                   call, page>>

\* the callback of chrome.storage.local.set in saveStorage: the payload is in
\* the store, or lastError is logged and the store is as it was; then cb, if
\* there is one, answers { ok: true }.  History: last keeps what the getStorage
\* callback of this handler has recorded.
SaveDone(t, ok) ==
    /\ t.kind = "save"
    /\ store' = IF ok THEN t.snap ELSE store
    /\ tasks' = tasks (-) SetToBag({t})
    /\ out' = IF t.reply # 0 THEN Reply(t.reply, TRUE) ELSE out
    /\ last' = [last EXCEPT !.op = IF t.reply = 0
                                   THEN (IF ok THEN "saved" ELSE "save_failed")
                                   ELSE (IF ok THEN "answered" ELSE "answered_save_failed"),
                            !.before = IF store.state = Absent THEN Idle ELSE store.state]
    /\ UNCHANGED <<license, DEFAULT_STATE, tabUrls, installed, events, run, closedTabs,
                   call, page>>

\* mutant: chrome.tabs.create is called again when it failed
AlertDoneRetries(t, ok) ==
    /\ t.kind = "alert"
    /\ tasks' = IF ok \/ ~hasValidLicense(license) THEN tasks (-) SetToBag({t}) ELSE tasks
    /\ out' = IF ~hasValidLicense(license) THEN out
              ELSE IF ok THEN [out EXCEPT !.opened = @ + 1]
              ELSE [out EXCEPT !.failed = @ + 1]
    /\ last' = [last EXCEPT !.op = IF ~hasValidLicense(license) THEN "alert_skipped"
                                   ELSE IF t.caller = "test_alert" THEN "test_alert_done"
                                   ELSE IF ok THEN "alert_opened" ELSE "alert_failed"]
    /\ UNCHANGED <<store, license, DEFAULT_STATE, tabUrls, installed, events, run,
                   closedTabs, call, page>>

\* triggerAlert after its await: without a valid licence it returns; else
\* chrome.tabs.create, whose callback logs the tab or the error.  History:
\* last keeps what the getStorage callback of this handler has recorded.
AlertDone(t, ok) ==
    /\ t.kind = "alert"
    /\ tasks' = tasks (-) SetToBag({t})
    /\ out' = IF ~hasValidLicense(license) THEN out
              ELSE IF ok THEN [out EXCEPT !.opened = @ + 1]
              ELSE [out EXCEPT !.failed = @ + 1]
    /\ last' = [last EXCEPT !.op = IF ~hasValidLicense(license) THEN "alert_skipped"
                                   ELSE IF t.caller = "test_alert" THEN "test_alert_done"
                                   ELSE IF ok THEN "alert_opened" ELSE "alert_failed"]
    /\ UNCHANGED <<store, license, DEFAULT_STATE, tabUrls, installed, events, run,
                   closedTabs, call, page>>

\* runtime.onMessage for a message with one of the three types
MessageArrives(type) ==
    /\ events < MaxFaultEvents
    /\ events' = events + 1
    /\ out' = [out EXCEPT !.asked = @ + 1]
    /\ tasks' = tasks (+) SetToBag({MessageTask(out.asked + 1, type)})
    /\ last' = [NoStep EXCEPT !.op = "message"]
    /\ UNCHANGED <<store, license, DEFAULT_STATE, tabUrls, installed, run, closedTabs,
                   call, page>>

\* the then-callback of hasValidLicense() in runtime.onMessage
MessageLicensed(t) ==
    LET rest == tasks (-) SetToBag({t}) IN
    /\ t.kind = "message"
    /\ IF ~hasValidLicense(license) THEN
            /\ out' = Reply(t.id, FALSE)
            /\ tasks' = rest
            /\ last' = [NoStep EXCEPT !.op = "refused"]
       ELSE IF t.type = "test_alert" THEN
            /\ out' = [Reply(t.id, TRUE) EXCEPT !.calls = @ + 1]
            /\ tasks' = rest (+) SetToBag({AlertTask(out.calls + 1, "test_alert")})
            /\ last' = [NoStep EXCEPT !.op = t.type, !.fired = TRUE]
       ELSE
            /\ out' = out
            /\ tasks' = rest (+) SetToBag({Task(t.type, t.id, NoUrl)})
            /\ last' = [NoStep EXCEPT !.op = "licensed"]
    /\ UNCHANGED <<store, license, DEFAULT_STATE, tabUrls, installed, events, run,
                   closedTabs, call, page>>

\* the getStorage callback of reset_counter / alert_acknowledged up to its
\* call of saveStorage
MessageCallbackIo(t, readOk) ==
    LET got == Delivered(t, readOk)
        e   == ControlEffect(t.kind, got.state, tabUrls)
    IN
    /\ t.kind \in {"reset_counter", "alert_acknowledged"}
    /\ DEFAULT_STATE' = IF readOk THEN DEFAULT_STATE ELSE e.state
    /\ tabUrls' = e.map
    /\ tasks' = (tasks (-) SetToBag({t})) (+) SetToBag({SaveTask(got.settings, e.state, t.tab)})
    /\ last' = [NoStep EXCEPT !.op = t.kind, !.read = got.state, !.mapBefore = tabUrls,
                              !.readOk = readOk, !.wrote = e.state]
    /\ run' = NoRun
    /\ UNCHANGED <<store, license, installed, events, closedTabs, call, page, out>>

\* an event comes when the handlers of the earlier events have finished
FaultNext ==
    \/ \E url \in LoadUrls : tasks = EmptyBag /\ FaultVisit(url)
    \/ \E t \in BagToSet(tasks), readOk \in BOOLEAN : NavCallbackIo(t, readOk)
    \/ \E t \in BagToSet(tasks), ok \in BOOLEAN : SaveDone(t, ok)
    \/ \E t \in BagToSet(tasks), ok \in BOOLEAN : AlertDone(t, ok)
    \/ \E type \in MessageTypes : tasks = EmptyBag /\ MessageArrives(type)
    \/ \E t \in BagToSet(tasks) : MessageLicensed(t)
    \/ \E t \in BagToSet(tasks), readOk \in BOOLEAN : MessageCallbackIo(t, readOk)

SpecFault == FaultInit /\ [][FaultNext]_vars

(***************************************************************************)
(* Control messages, any number of them in flight                          *)
(***************************************************************************)
\* largest number of messages of a scenario
MaxMessages == 2

MessagesNext ==
    \/ \E type \in MessageTypes : out.asked < MaxMessages /\ MessageArrives(type)
    \/ \E t \in BagToSet(tasks) : MessageLicensed(t)
    \/ \E t \in BagToSet(tasks), readOk \in BOOLEAN : MessageCallbackIo(t, readOk)
    \/ \E t \in BagToSet(tasks), ok \in BOOLEAN : SaveDone(t, ok)
    \/ \E t \in BagToSet(tasks), ok \in BOOLEAN : AlertDone(t, ok)

\* the browser calls back every asynchronous call that is pending: the
\* promise of hasValidLicense, the callbacks of chrome.storage.local.get and
\* set, and the callback of chrome.tabs.create
MessagesFairness ==
    /\ WF_vars(\E t \in BagToSet(tasks) : MessageLicensed(t))
    /\ WF_vars(\E t \in BagToSet(tasks), readOk \in BOOLEAN : MessageCallbackIo(t, readOk))
    /\ WF_vars(\E t \in BagToSet(tasks), ok \in BOOLEAN : SaveDone(t, ok))
    /\ WF_vars(\E t \in BagToSet(tasks), ok \in BOOLEAN : AlertDone(t, ok))

SpecMessages == FaultInit /\ [][MessagesNext]_vars /\ MessagesFairness

(***************************************************************************)
(* The settings page: editing patterns and saving                          *)
(***************************************************************************)
\* largest number of things the user does on the page
MaxPageSteps == 4

\* what the user types into a pattern field
PagePatterns == {"", "reddit.com/*"}

\* the rows renderTrackedSites makes of a rule list; history: shows is the id
\* of the rule the row was rendered from
PageRows(sites) ==
    [n \in 1..Len(sites) |->
        [pattern |-> sites[n].pattern, enabled |-> sites[n].enabled, shows |-> sites[n].id]]

\* the page as loadSettings shows the settings; history: ids is the id the
\* latest save gave to the rule of each row ("" for a row it dropped), saves
\* the number of saves since the page was loaded
LoadedPage(settings, now) ==
    [open |-> TRUE, rows |-> PageRows(settings.trackedSites), now |-> now,
     ids |-> [n \in 1..Len(settings.trackedSites) |-> ""], saves |-> 0]

\* the installed defaults, the settings page just loaded
PageInit ==
    /\ store = Saved(DEFAULT_SETTINGS, Idle)
    /\ page = LoadedPage(DEFAULT_SETTINGS, 1)
    /\ installed = "done"
    /\ license = ValidLicense
    /\ DEFAULT_STATE = InitialDefaultState
    /\ tabUrls = EmptyTabUrls
    /\ tasks = EmptyBag
    /\ events = 0
    /\ last = NoStep
    /\ run = NoRun
    /\ closedTabs = {}
    /\ call = NoCall
    /\ out = NoOut

\* the user types a pattern into the field of row n
PageEdit(n, text) ==
    /\ events < MaxPageSteps
    /\ n \in DOMAIN page.rows
    /\ page.rows[n].pattern # text
    /\ events' = events + 1
    /\ page' = [page EXCEPT !.rows[n].pattern = text]
    /\ UNCHANGED <<store, license, DEFAULT_STATE, tabUrls, tasks, installed, last, run,
                   closedTabs, call, out>>

\* the Save button: saveSettings reads the stored settings, makes the rule
\* list of the rows and writes it; the rows stay as they are
PageSave ==
    LET old   == store.settings
        sites == RowSites(page.rows, old, page.now)
    IN
    /\ events < MaxPageSteps
    /\ hasValidLicense(license)
    /\ events' = events + 1
    /\ store' = [store EXCEPT !.settings =
                    NewSettings(SavedThreshold(old.threshold), page.rows, old, page.now)]
    /\ page' = [page EXCEPT !.now = @ + 1, !.saves = @ + 1,
                            !.ids = [n \in 1..Len(sites) |->
                                        IF sites[n].pattern # "" THEN sites[n].id ELSE ""]]
    /\ UNCHANGED <<license, DEFAULT_STATE, tabUrls, tasks, installed, last, run,
                   closedTabs, call, out>>

\* the page is loaded again: loadSettings renders the stored rules
PageReload ==
    /\ events < MaxPageSteps
    /\ page.saves > 0
    /\ events' = events + 1
    /\ page' = LoadedPage(MergedSettings(store.settings), page.now + 1)
    /\ UNCHANGED <<store, license, DEFAULT_STATE, tabUrls, tasks, installed, last, run,
                   closedTabs, call, out>>

PageNext ==
    \/ \E n \in 1..3, text \in PagePatterns : PageEdit(n, text)
    \/ PageSave
    \/ PageReload

SpecPage == PageInit /\ [][PageNext]_vars

(***************************************************************************)
(* The stored licence: checks, revalidation, deactivation                  *)
(***************************************************************************)
\* largest number of licence checks, activations and deactivations
MaxLicenseSteps == 4

\* a licence the server has confirmed; stale tells that validatedAt is more
\* than CACHE_DURATION (one hour) ago
StoredLicense(valid, stale) == [valid |-> valid, expired |-> FALSE, stale |-> stale]

\* validateLicenseKey(key) has sent its request
ValidateTask(n) == [kind |-> "validate", n |-> n]

\* a licence has been activated, a moment or more than an hour ago; call
\* keeps the latest licence operation of the user
LicenseInit ==
    /\ \E stale \in BOOLEAN : license = StoredLicense(TRUE, stale)
    /\ call = [fn |-> "activate", done |-> TRUE]
    /\ store = Saved(DEFAULT_SETTINGS, Idle)
    /\ installed = "done"
    /\ DEFAULT_STATE = InitialDefaultState
    /\ tabUrls = EmptyTabUrls
    /\ tasks = EmptyBag
    /\ events = 0
    /\ last = NoStep
    /\ run = NoRun
    /\ closedTabs = {}
    /\ page = NoPage
    /\ out = NoOut

\* an hour passes since the stored licence was validated
HourPasses ==
    /\ license # Absent
    /\ ~license.stale
    /\ license' = [license EXCEPT !.stale = TRUE]
    /\ UNCHANGED <<store, DEFAULT_STATE, tabUrls, tasks, installed, events, last, run,
                   closedTabs, call, page, out>>

\* a page or the background calls licenseManager.hasValidLicense(): the
\* answer, and the revalidation it starts when the cache is older than an hour
CheckLicense ==
    /\ events < MaxLicenseSteps
    /\ events' = events + 1
    /\ last' = [NoStep EXCEPT !.op = IF hasValidLicense(license)
                                     THEN "licensed" ELSE "nolicense"]
    /\ tasks' = IF hasValidLicense(license) /\ license.stale
                THEN tasks (+) SetToBag({ValidateTask(events + 1)}) ELSE tasks
    /\ UNCHANGED <<store, license, DEFAULT_STATE, tabUrls, installed, run, closedTabs,
                   call, page, out>>

\* validateLicenseKey after its awaits: the server has answered valid or
\* invalid and setStoredLicense stores the answer, or the request has failed
\* and nothing is stored
ValidateDone(t, answer) ==
    /\ t.kind = "validate"
    /\ tasks' = tasks (-) SetToBag({t})
    /\ license' = IF answer = "error" THEN license
                  ELSE StoredLicense(answer = "valid", FALSE)
    /\ last' = [NoStep EXCEPT !.op = "revalidated"]
    /\ UNCHANGED <<store, DEFAULT_STATE, tabUrls, installed, events, run, closedTabs,
                   call, page, out>>

\* the Deactivate button of the popup: await licenseManager.clearLicense(),
\* which removes whop_license or rejects on lastError
ClearLicense(ok) ==
    /\ events < MaxLicenseSteps
    /\ events' = events + 1
    /\ license' = IF ok THEN Absent ELSE license
    /\ call' = [fn |-> "clearLicense", done |-> ok]
    /\ last' = [NoStep EXCEPT !.op = "deactivate"]
    /\ UNCHANGED <<store, DEFAULT_STATE, tabUrls, tasks, installed, run, closedTabs,
                   page, out>>

\* the Activate button of the popup with a key the server confirms
Activate ==
    /\ events < MaxLicenseSteps
    /\ license = Absent
    /\ events' = events + 1
    /\ license' = StoredLicense(TRUE, FALSE)
    /\ call' = [fn |-> "activate", done |-> TRUE]
    /\ last' = [NoStep EXCEPT !.op = "activate"]
    /\ UNCHANGED <<store, DEFAULT_STATE, tabUrls, tasks, installed, run, closedTabs,
                   page, out>>

LicenseNext ==
    \/ HourPasses
    \/ CheckLicense
    \/ \E t \in BagToSet(tasks), answer \in {"valid", "invalid", "error"} :
          ValidateDone(t, answer)
    \/ \E ok \in BOOLEAN : ClearLicense(ok)
    \/ Activate

SpecLicense == LicenseInit /\ [][LicenseNext]_vars

(***************************************************************************)
(* One page load of one tab reported by tabs.onUpdated and tabs.onActivated *)
(***************************************************************************)
\* a tab loads a page on a persisted streak; call keeps the tab and the URL
\* of the load, the streak it found, which listeners have reported it, and
\* whether the second report came while the handler of the first was running
OverlapInit ==
    /\ \E settings \in RaceSettings : \E prior \in RaceStates(settings) :
       \E tabId \in Tabs, url \in NavUrls :
          /\ store = Saved(settings, prior)
          /\ call = [fn |-> "load", tab |-> tabId, url |-> url, prior |-> prior,
                     updated |-> FALSE, activated |-> FALSE, overlapped |-> FALSE]
    /\ installed = "done"
    /\ license = ValidLicense
    /\ DEFAULT_STATE = InitialDefaultState
    /\ tabUrls = EmptyTabUrls
    /\ tasks = EmptyBag
    /\ events = 0
    /\ last = NoStep
    /\ run = NoRun
    /\ closedTabs = {}
    /\ page = NoPage
    /\ out = NoOut

\* tabs.onUpdated reports the load: handleUrl runs up to its await
OnUpdated ==
    /\ ~call.updated
    /\ call' = [call EXCEPT !.updated = TRUE, !.overlapped = tasks # EmptyBag]
    /\ events' = events + 1
    /\ tasks' = tasks (+) SetToBag({AwaitTask(call.tab, call.url)})
    /\ UNCHANGED <<store, license, DEFAULT_STATE, tabUrls, installed, last, run,
                   closedTabs, page, out>>

\* tabs.onActivated reports the tab, chrome.tabs.get delivers the same URL:
\* handleUrl runs up to its await
OnActivated ==
    /\ ~call.activated
    /\ call' = [call EXCEPT !.activated = TRUE, !.overlapped = tasks # EmptyBag]
    /\ events' = events + 1
    /\ tasks' = tasks (+) SetToBag({AwaitTask(call.tab, call.url)})
    /\ UNCHANGED <<store, license, DEFAULT_STATE, tabUrls, installed, last, run,
                   closedTabs, page, out>>

OverlapNext ==
    \/ OnUpdated
    \/ OnActivated
    \/ \E t \in BagToSet(tasks) : NavResume(t)
    \/ \E t \in BagToSet(tasks) : NavCallback(t)

SpecOverlap == OverlapInit /\ [][OverlapNext]_vars

(***************************************************************************)
(* The settings page saves while handlers of the background are running    *)
(***************************************************************************)
\* settings the page has saved, the streak Idle, no handler running
SaveInit ==
    /\ \E settings \in RaceSettings : store = Saved(settings, Idle)
    /\ license = ValidLicense
    /\ installed = "done"
    /\ DEFAULT_STATE = InitialDefaultState
    /\ tabUrls = EmptyTabUrls
    /\ tasks = EmptyBag
    /\ events = 0
    /\ last = NoStep
    /\ run = NoRun
    /\ closedTabs = {}
    /\ call = NoCall
    /\ page = NoPage
    /\ out = NoOut

\* the Save button of the settings page, loaded from the store and edited as
\* in says: saveSettings reads the stored settings and writes the key settings
\* alone.  History: call keeps the settings of the latest save that changed
\* them.
saveSettings(in) ==
    LET old == store.settings
        new == NewSettings(SavedThreshold(in.value),
                           EditRows(RenderedRows(old), in.edit), old, events)
    IN
    /\ events < MaxEvents
    /\ new # old
    /\ events' = events + 1
    /\ store' = [store EXCEPT !.settings = new]
    /\ call' = [fn |-> "saveSettings", settings |-> new]
    /\ last' = [NoStep EXCEPT !.op = "settings_saved"]
    /\ UNCHANGED <<license, DEFAULT_STATE, tabUrls, tasks, installed, run, closedTabs,
                   page, out>>

SaveNext ==
    \/ \E url \in LoadUrls : NavEvent(1, url)
    \/ \E t \in BagToSet(tasks) : NavCallback(t)
    \/ \E type \in MessageTypes : MessageEvent(type)
    \/ \E t \in BagToSet(tasks) : MessageCallback(t)
    \/ \E in \in SettingsInputs : saveSettings(in)

SpecSave == SaveInit /\ [][SaveNext]_vars

(***************************************************************************)
(* The licence is lost while the tracker runs                              *)
(***************************************************************************)
\* what the store holds under whop_license when there is no valid licence:
\* nothing, a licence the server has called invalid, a licence past expiresAt
NoValidLicenses ==
    {Absent, [valid |-> FALSE, expired |-> FALSE], [valid |-> TRUE, expired |-> TRUE]}

\* the tracker with a valid licence or without one
UnlicensedInit ==
    /\ \E settings \in FaultSettings : store = Saved(settings, Idle)
    /\ license \in {ValidLicense} \cup NoValidLicenses
    /\ installed = "done"
    /\ DEFAULT_STATE = InitialDefaultState
    /\ tabUrls = EmptyTabUrls
    /\ tasks = EmptyBag
    /\ events = 0
    /\ last = NoStep
    /\ run = NoRun
    /\ closedTabs = {}
    /\ call = NoCall
    /\ page = NoPage
    /\ out = NoOut

\* the valid licence goes: the popup's Deactivate removes it, a revalidation
\* stores the server's answer invalid, or the time passes expiresAt
LicenseLost(to) ==
    /\ hasValidLicense(license)
    /\ license' = to
    /\ UNCHANGED <<store, DEFAULT_STATE, tabUrls, tasks, installed, events, last, run,
                   closedTabs, call, page, out>>

UnlicensedNext ==
    \/ FaultNext
    \/ \E to \in NoValidLicenses : LicenseLost(to)

SpecUnlicensed == UnlicensedInit /\ [][UnlicensedNext]_vars

(***************************************************************************)
(* Calls of the classifier with rules whose pattern does not compile       *)
(***************************************************************************)
\* rules the user can store: "?" and "tiktok.com/?" give the regular
\* expressions ^?$ and ^tiktok\.com/?$; new RegExp throws on the first
CompileRules ==
    {[pattern |-> "?",            enabled |-> TRUE,  id |-> "odd"],
     [pattern |-> "?",            enabled |-> FALSE, id |-> "odd_off"],
     [pattern |-> "tiktok.com/?", enabled |-> TRUE,  id |-> "optional"],
     [pattern |-> "tiktok.com/*", enabled |-> TRUE,  id |-> "tiktok"],
     [pattern |-> "*",            enabled |-> TRUE,  id |-> "any"]}

CompileCalls ==
    {[fn |-> "getSiteType", url |-> u, sites |-> sites, done |-> FALSE, result |-> Null] :
        u \in ClassifyUrls,
        sites \in UNION {[1..n -> CompileRules] : n \in 0..MaxRules}}

CompileInit ==
    /\ call \in CompileCalls
    /\ store = Saved(DEFAULT_SETTINGS, Idle)
    /\ installed = "done"
    /\ license = ValidLicense
    /\ DEFAULT_STATE = InitialDefaultState
    /\ tabUrls = EmptyTabUrls
    /\ tasks = EmptyBag
    /\ events = 0
    /\ last = NoStep
    /\ run = NoRun
    /\ closedTabs = {}
    /\ page = NoPage
    /\ out = NoOut

CompileNext == CallGetSiteType

SpecCompile == CompileInit /\ [][CompileNext]_vars

(***************************************************************************)
(* The snooze generation of the background script                          *)
(***************************************************************************)
\* largest number of events (visits of tab 1 and messages) of a scenario
MaxSnoozeEvents == 3

\* state.snoozeCountRemaining = 20 of alert_dismissed
SnoozeCredits == 20

SnoozeState(count, siteType, credits) ==
    [currentCount |-> count, lastSiteType |-> siteType, snoozeCountRemaining |-> credits]

\* DEFAULT_STATE of the snooze generation
SnoozeDefaultState == SnoozeState(0, Null, 0)

\* getStorage of the snooze generation: the stored counters, each replaced
\* by its default when it is not stored
SnoozeGetStorage(data, defaultState) ==
    [settings |-> MergedSettings(data.settings),
     state    |-> IF data.state = Absent
                  THEN SnoozeState(defaultState.currentCount, defaultState.lastSiteType,
                                   defaultState.snoozeCountRemaining)
                  ELSE data.state]

RECURSIVE FirstMatchIdOrPattern(_, _, _)
\* the loop of getSiteType of the snooze generation: site.id || site.pattern
\* of the first enabled rule that accepts the URL
FirstMatchIdOrPattern(sites, urlStr, altUrlStr) ==
    IF sites = <<>> THEN Null
    ELSE
      LET site == Head(sites) IN
      IF ~site.enabled \/ site.pattern = ""
      THEN FirstMatchIdOrPattern(Tail(sites), urlStr, altUrlStr)
      ELSE
        LET regex == wildcardToRegExp(site.pattern) IN
        IF ~regex.ok THEN Null
        ELSE IF RegexTest(regex, urlStr) \/ RegexTest(regex, altUrlStr)
             THEN (IF site.id # "" THEN site.id ELSE site.pattern)
        ELSE FirstMatchIdOrPattern(Tail(sites), urlStr, altUrlStr)

\* getSiteType of the snooze generation
SnoozeSiteType(url, trackedSites) ==
    IF url = "" THEN Null
    ELSE
      LET u == ParseUrl(url) IN
      IF ~u.ok THEN Null
      ELSE FirstMatchIdOrPattern(trackedSites, u.host \o u.pathname,
                                 BareHost(u.host) \o u.pathname)

\* the URLs tab 1 reports
SnoozeUrls == LoadUrls \cup {"chrome://extensions/"}

\* SnoozeSiteType, with the answers for the URLs and rule lists of this
\* specification computed once
SnoozeSiteTypeTable ==
    [url \in SnoozeUrls, sites \in {settings.trackedSites : settings \in FaultSettings} |->
        SnoozeSiteType(url, sites)]

SnoozeClassify(url, sites) ==
    IF url \in SnoozeUrls /\ sites \in {settings.trackedSites : settings \in FaultSettings}
    THEN SnoozeSiteTypeTable[url, sites] ELSE SnoozeSiteType(url, sites)

\* mutant: at the threshold a credit is used up and the alert is raised too
SnoozeStepAlertsAnyway(state, siteType, threshold) ==
    IF ~TruthyStr(siteType)
    THEN IF state.currentCount > 0 \/ state.lastSiteType # Null
         THEN [state |-> SnoozeState(0, Null, state.snoozeCountRemaining),
               fired |-> FALSE, save |-> TRUE]
         ELSE [state |-> state, fired |-> FALSE, save |-> FALSE]
    ELSE LET c == IF state.lastSiteType = siteType THEN state.currentCount + 1 ELSE 1
         IN IF c >= threshold
            THEN IF state.snoozeCountRemaining > 0
                 THEN [state |-> SnoozeState(0, Null, state.snoozeCountRemaining - 1),
                       fired |-> TRUE, save |-> TRUE]
                 ELSE [state |-> SnoozeState(0, Null, state.snoozeCountRemaining),
                       fired |-> TRUE, save |-> TRUE]
            ELSE [state |-> SnoozeState(c, siteType, state.snoozeCountRemaining),
                  fired |-> FALSE, save |-> TRUE]

\* the getStorage callback of handleUrl of the snooze generation: the next
\* state, whether triggerAlert is called, whether saveStorage is called
SnoozeStep(state, siteType, threshold) ==
    IF ~TruthyStr(siteType)
    THEN IF state.currentCount > 0 \/ state.lastSiteType # Null
         THEN [state |-> SnoozeState(0, Null, state.snoozeCountRemaining),
               fired |-> FALSE, save |-> TRUE]
         ELSE [state |-> state, fired |-> FALSE, save |-> FALSE]
    ELSE LET c == IF state.lastSiteType = siteType THEN state.currentCount + 1 ELSE 1
         IN IF c >= threshold
            THEN IF state.snoozeCountRemaining > 0
                 THEN [state |-> SnoozeState(0, Null, state.snoozeCountRemaining - 1),
                       fired |-> FALSE, save |-> TRUE]
                 ELSE [state |-> SnoozeState(0, Null, state.snoozeCountRemaining),
                       fired |-> TRUE, save |-> TRUE]
            ELSE [state |-> SnoozeState(c, siteType, state.snoozeCountRemaining),
                  fired |-> FALSE, save |-> TRUE]

\* the getStorage callbacks of alert_dismissed, reset_counter and
\* alert_acknowledged: the state that is saved and the map tabUrls afterwards
SnoozeControlEffect(type, state, map) ==
    IF type = "alert_dismissed"
    THEN [state |-> [state EXCEPT !.snoozeCountRemaining = SnoozeCredits], map |-> map]
    ELSE [state |-> SnoozeState(0, Null, 0),
          map   |-> IF type = "reset_counter" THEN EmptyTabUrls ELSE map]

SnoozeMessageTypes == {"alert_dismissed", "reset_counter", "test_alert", "alert_acknowledged"}

\* credits left by earlier dismissals
SnoozeInitCredits == {0, 1, SnoozeCredits}

\* the snooze generation installed, settings saved by the settings page, the
\* streak Idle, some credits left of an earlier dismissal
SnoozeInit ==
    /\ \E settings \in FaultSettings, credits \in SnoozeInitCredits :
          store = Saved(settings, SnoozeState(0, Null, credits))
    /\ DEFAULT_STATE = SnoozeDefaultState
    /\ license = Absent
    /\ installed = "done"
    /\ tabUrls = EmptyTabUrls
    /\ tasks = EmptyBag
    /\ events = 0
    /\ last = NoStep
    /\ run = NoRun
    /\ closedTabs = {}
    /\ call = NoCall
    /\ page = NoPage
    /\ out = NoOut

SnoozeTask(kind, tabId, url) ==
    [kind |-> kind, tab |-> tabId, url |-> url,
     snap |-> SnoozeGetStorage(store, DEFAULT_STATE)]

\* tab 1 reports a URL: handleUrl of the snooze generation up to its call of
\* getStorage (no licence check in this generation)
SnoozeVisit(url) ==
    LET gate == DedupGate(tabUrls, 1, url) IN
    /\ events < MaxSnoozeEvents
    /\ events' = events + 1
    /\ IF IsBrowserUrl(url) THEN
            /\ last' = [NoStep EXCEPT !.op = "browser_url"]
            /\ UNCHANGED <<tabUrls, tasks>>
       ELSE IF ~gate.process THEN
            /\ last' = [NoStep EXCEPT !.op = "duplicate"]
            /\ tabUrls' = gate.map
            /\ UNCHANGED tasks
       ELSE
            /\ last' = [NoStep EXCEPT !.op = "gate_passed"]
            /\ tabUrls' = gate.map
            /\ tasks' = tasks (+) SetToBag({SnoozeTask("nav", 1, url)})
    /\ UNCHANGED <<store, license, DEFAULT_STATE, installed, run, closedTabs, call, page, out>>

\* the getStorage callback of handleUrl of the snooze generation, with
\* triggerAlert and saveStorage
SnoozeCallback(t) ==
    LET settings  == t.snap.settings
        siteType  == SnoozeClassify(t.url, settings.trackedSites)
        threshold == EffectiveThreshold(settings)
        r         == SnoozeStep(t.snap.state, siteType, threshold)
    IN
    /\ t.kind = "nav"
    /\ store' = IF r.save THEN Saved(settings, r.state) ELSE store
    /\ tasks' = tasks (-) SetToBag({t})
    /\ out' = IF r.fired THEN [out EXCEPT !.calls = @ + 1, !.opened = @ + 1] ELSE out
    /\ last' = [NoStep EXCEPT !.op = "snooze_visit", !.read = t.snap.state, !.site = siteType,
                              !.threshold = threshold, !.fired = r.fired, !.wrote = r.state]
    /\ UNCHANGED <<license, DEFAULT_STATE, tabUrls, installed, events, run, closedTabs,
                   call, page>>

\* runtime.onMessage of the snooze generation: test_alert calls triggerAlert
\* and answers, the other three call getStorage
SnoozeMessage(type) ==
    /\ events < MaxSnoozeEvents
    /\ events' = events + 1
    /\ IF type = "test_alert" THEN
            /\ out' = [Reply(out.asked + 1, TRUE) EXCEPT !.asked = @ + 1, !.calls = @ + 1,
                                                         !.opened = @ + 1]
            /\ last' = [NoStep EXCEPT !.op = type, !.fired = TRUE]
            /\ UNCHANGED tasks
       ELSE
            /\ out' = [out EXCEPT !.asked = @ + 1]
            /\ last' = [NoStep EXCEPT !.op = "message"]
            /\ tasks' = tasks (+) SetToBag({SnoozeTask(type, out.asked + 1, NoUrl)})
    /\ UNCHANGED <<store, license, DEFAULT_STATE, tabUrls, installed, run, closedTabs,
                   call, page>>

\* the getStorage callback of alert_dismissed / reset_counter /
\* alert_acknowledged, with the saveStorage callback that answers { ok: true }
SnoozeMessageCallback(t) ==
    LET e == SnoozeControlEffect(t.kind, t.snap.state, tabUrls) IN
    /\ t.kind \in SnoozeMessageTypes \ {"test_alert"}
    /\ store' = Saved(t.snap.settings, e.state)
    /\ tabUrls' = e.map
    /\ tasks' = tasks (-) SetToBag({t})
    /\ out' = Reply(t.tab, TRUE)
    /\ last' = [NoStep EXCEPT !.op = t.kind, !.read = t.snap.state, !.wrote = e.state]
    /\ UNCHANGED <<license, DEFAULT_STATE, installed, events, run, closedTabs, call, page>>

SnoozeNext ==
    \/ \E url \in SnoozeUrls : SnoozeVisit(url)
    \/ \E t \in BagToSet(tasks) : SnoozeCallback(t)
    \/ \E type \in SnoozeMessageTypes : SnoozeMessage(type)
    \/ \E t \in BagToSet(tasks) : SnoozeMessageCallback(t)

SpecSnooze == SnoozeInit /\ [][SnoozeNext]_vars

(***************************************************************************)
(* Properties of the streak state machine                                  *)
(***************************************************************************)
\* C1: whenever a streak state is persisted it is either Idle (count 0, no
\* site type) or Streaking (count at least 1 with a site type); a count of 0
\* with a site type, or a positive count without one, is never persisted.
C1_PersistedStateIsIdleOrStreaking ==
    store.state # Absent =>
        \/ store.state = Idle
        \/ /\ store.state.currentCount >= 1
           /\ TruthyStr(store.state.lastSiteType)

\* a Streaking state written by a visit while another handler is still
\* waiting for its getStorage callback
C1_Witness ==
    /\ last.op = "visit"
    /\ store.state # Absent
    /\ store.state.currentCount >= 1
    /\ TruthyStr(store.state.lastSiteType)
    /\ tasks # EmptyBag

\* C2: a processed visit that is classified to a site type and whose count
\* after the increment/restart step is at least the threshold calls the
\* presenter in that same handler and persists Idle; the next visit of that
\* type processed after it is persisted with count 1.
C2_FiresAndResetsAtThreshold ==
    /\ last.op = "visit" /\ TruthyStr(last.site) =>
          LET c == IF last.read.lastSiteType = last.site
                   THEN last.read.currentCount + 1 ELSE 1
          IN c >= last.threshold => last.fired /\ store.state = Idle
    /\ run # NoRun /\ run.threshold > 1 /\ run.k = run.threshold + 1 =>
          /\ run.fires = 1
          /\ store.state = [currentCount |-> 1, lastSiteType |-> run.site]

\* the visit that follows a firing one: it read Idle and wrote count 1
C2_Witness ==
    /\ last.op = "visit"
    /\ last.read = Idle
    /\ run.threshold = 2
    /\ run.k = 3
    /\ run.fires = 1
    /\ store.state = [currentCount |-> 1, lastSiteType |-> run.site]

\* C3: after k visits of one site type processed one after the other from
\* Idle, with no control message between them, the presenter has been called
\* exactly k \div T times (T the threshold), and the persisted count is
\* k % T, the streak restarting from zero after each call.
C3_FiresFloorOfKOverT ==
    run # NoRun =>
        /\ run.threshold >= 1
        /\ run.fires = run.k \div run.threshold
        /\ store.state = IF run.k % run.threshold = 0 THEN Idle
                         ELSE [currentCount |-> run.k % run.threshold,
                               lastSiteType |-> run.site]

\* three visits under threshold 2: one call, and one visit into the next streak
C3_Witness ==
    /\ run.k = 3
    /\ run.threshold = 2
    /\ run.fires = 1
    /\ store.state.currentCount = 1

\* C4: a processed visit classified X whose handler read a Streaking state
\* (c, X) with c + 1 below the threshold persists (c + 1, X) and does not
\* call the presenter; n visits of X from Idle, n below the threshold,
\* persist (n, X) with no call.
C4_SameTypeAccrues ==
    /\ /\ last.op = "visit"
       /\ TruthyStr(last.site)
       /\ last.read.lastSiteType = last.site
       /\ last.read.currentCount >= 1
       /\ last.read.currentCount + 1 < last.threshold
       => /\ ~last.fired
          /\ store.state = [currentCount |-> last.read.currentCount + 1,
                            lastSiteType |-> last.site]
    /\ run # NoRun /\ run.k < run.threshold =>
          /\ run.fires = 0
          /\ store.state = [currentCount |-> run.k, lastSiteType |-> run.site]

\* the second visit of a streak, below the threshold
C4_Witness ==
    /\ last.op = "visit"
    /\ last.read.currentCount = 1
    /\ last.read.lastSiteType = last.site
    /\ ~last.fired
    /\ run.k = 2
    /\ store.state = [currentCount |-> 2, lastSiteType |-> last.site]

\* C5: under a threshold above 1, a processed visit classified B whose
\* handler read another site type A, or none, persists (1, B) and does not
\* call the presenter, whatever the count of A was.
C5_TypeSwitchRestartsAtOne ==
    /\ last.op = "visit"
    /\ TruthyStr(last.site)
    /\ last.read.lastSiteType # last.site
    /\ last.threshold > 1
    => /\ ~last.fired
       /\ store.state = [currentCount |-> 1, lastSiteType |-> last.site]

\* a visit of one type after a streak of another type
C5_Witness ==
    /\ last.op = "visit"
    /\ last.read.currentCount >= 1
    /\ TruthyStr(last.read.lastSiteType)
    /\ TruthyStr(last.site)
    /\ last.read.lastSiteType # last.site
    /\ store.state = [currentCount |-> 1, lastSiteType |-> last.site]

\* C6: a processed visit that matches no enabled rule persists Idle when its
\* handler read a Streaking state, leaves Idle as it is, and never calls the
\* presenter.
C6_NonTrackedResets ==
    last.op = "visit" /\ ~TruthyStr(last.site) =>
        /\ ~last.fired
        /\ store.state = Idle

\* a non-tracked visit that ended a streak
C6_Witness ==
    /\ last.op = "visit"
    /\ last.site = Null
    /\ last.read.currentCount >= 1
    /\ store.state = Idle

\* C7: with threshold T, T page loads matching one rule, processed one after
\* the other from Idle, each possibly notified twice, make the T-th load call
\* the presenter, once in all, and leave the persisted state Idle.
C7_ThresholdLoadsFireOnce ==
    run # NoRun /\ run.k = run.threshold =>
        /\ run.fires = 1
        /\ store.state = Idle
        /\ last.op = "visit" => last.fired

\* threshold 2 and the one rule youtube.com/shorts/*: shorts/1, notified
\* twice, then shorts/2, which fires
C7_Witness ==
    /\ store.settings # Absent
    /\ Cardinality({i \in DOMAIN store.settings.trackedSites :
                        store.settings.trackedSites[i].enabled}) = 1
    /\ run.threshold = 2
    /\ run.k = 2
    /\ run.dups = 1
    /\ run.site = "youtube_shorts"
    /\ last.op = "visit"
    /\ last.fired
    /\ \E t \in Tabs : tabUrls[t] = "https://youtube.com/shorts/2"

\* C8: a navigation event for a tab whose URL equals the URL recorded for
\* that tab changes neither the record, nor the store, nor the set of running
\* handlers; with any other URL the URL is recorded for that tab alone and a
\* handler for it goes on to getStorage.
C8_DedupGateSuppresses ==
    [][\A tabId \in Tabs, url \in NavUrls :
          NavEvent(tabId, url) /\ hasValidLicense(license) /\ ~IsBrowserUrl(url) =>
             IF tabUrls[tabId] = url
             THEN /\ tabUrls' = tabUrls
                  /\ tasks' = tasks
                  /\ store' = store
             ELSE /\ tabUrls' = [tabUrls EXCEPT ![tabId] = url]
                  /\ store' = store
                  /\ \E t \in BagToSet(tasks') :
                        /\ t.kind = "nav" /\ t.tab = tabId /\ t.url = url
                        /\ tasks' = tasks (+) SetToBag({t})]_vars

\* a repeated notification was suppressed while the other tab holds another URL
C8_Witness ==
    /\ last.op = "duplicate"
    /\ \E a, b \in Tabs :
          /\ tabUrls[a] # NoUrl
          /\ tabUrls[b] # NoUrl
          /\ tabUrls[a] # tabUrls[b]

\* C9: the callback of reset_counter persists Idle and empties tabUrls, and
\* the navigation event that follows it passes the gate whatever pair it
\* carries, a pair recorded before the reset included.
C9_ResetClearsStateAndMap ==
    [][/\ \A t \in BagToSet(tasks) :
             t.kind = "reset_counter" /\ MessageCallback(t) =>
                 store'.state = Idle /\ tabUrls' = EmptyTabUrls
       /\ \A tabId \in Tabs, url \in NavUrls :
             /\ last.op = "reset_counter"
             /\ NavEvent(tabId, url)
             /\ ~IsBrowserUrl(url)
             => /\ last'.op = "gate_passed"
                /\ tabUrls'[tabId] = url
                /\ tasks' # tasks]_vars

\* a pair recorded before the reset passed the gate again after it
C9_Witness ==
    /\ last.op = "gate_passed"
    /\ last.again

\* C10: alert_acknowledged persists the same streak state as reset_counter,
\* Idle, but leaves tabUrls as it found it; only reset_counter empties it.
C10_AcknowledgeKeepsDedupMap ==
    /\ last.op = "alert_acknowledged" =>
          store.state = Idle /\ tabUrls = last.mapBefore
    /\ last.op = "reset_counter" =>
          store.state = Idle /\ tabUrls = EmptyTabUrls

\* an acknowledgement was handled while a URL was recorded, and it still is
C10_Witness ==
    /\ last.op = "alert_acknowledged"
    /\ store.state = Idle
    /\ tabUrls # EmptyTabUrls

\* C10 as stated: after either message the state is Idle and tabUrls is empty
C10_AcknowledgeSameAsReset ==
    last.op \in {"reset_counter", "alert_acknowledged"} =>
        store.state = Idle /\ tabUrls = EmptyTabUrls

(***************************************************************************)
(* Properties of the other handlers                                        *)
(***************************************************************************)
\* C11: test_alert calls the presenter and leaves the persisted count, site
\* type and settings, the map tabUrls and the running handlers as they were,
\* whatever the streak state is.
C11_TestAlertTouchesNothing ==
    [][MessageEvent("test_alert") /\ hasValidLicense(license) =>
          /\ last'.op = "test_alert"
          /\ last'.fired
          /\ store' = store
          /\ tabUrls' = tabUrls
          /\ tasks' = tasks]_vars

\* a test alert raised in the middle of a streak, which is still there
C11_Witness ==
    /\ last.op = "test_alert"
    /\ last.fired
    /\ store.state # Absent
    /\ store.state.currentCount >= 1
    /\ tabUrls # EmptyTabUrls

\* C14: a navigation event with a URL that starts with chrome, about: or
\* edge: changes neither the store (streak state, settings), nor tabUrls, nor
\* the running handlers, and the presenter is not called.
C14_BrowserUrlIsNoOp ==
    [][\A tabId \in Tabs, url \in NavUrls :
          /\ NavEvent(tabId, url)
          /\ SubSeq(url, 1, 6) = "chrome" \/ SubSeq(url, 1, 6) = "about:"
                \/ SubSeq(url, 1, 5) = "edge:"
          => /\ store' = store
             /\ tabUrls' = tabUrls
             /\ tasks' = tasks
             /\ ~last'.fired]_vars

\* a browser page was visited in the middle of a streak, which is still there
C14_Witness ==
    /\ last.op = "browser_url"
    /\ store.state # Absent
    /\ store.state.currentCount >= 1
    /\ \E t \in Tabs : tabUrls[t] # NoUrl /\ ~IsBrowserUrl(tabUrls[t])

\* C12: once the removal of a tab has been handled and no navigation handler
\* for that tab is running any more, tabUrls holds no entry for the tab.
C12_ClosedTabHasNoEntry ==
    \A tabId \in closedTabs :
        (\A t \in BagToSet(tasks) : t.tab # tabId) => tabUrls[tabId] = NoUrl

\* C13: when the handlers of two navigation events of two tabs have both
\* read the store before either wrote it, the state persisted in the end is
\* the one the later callback computes from the state both read: the other
\* event is lost as if it had not happened, and the final count is anywhere
\* from 0 to threshold - 1 whatever processing the events in order gives.
C13_LaterCallbackOverwrites ==
    /\ call.fn = "prior"
    /\ events = 2
    /\ tasks = EmptyBag
    /\ \A t \in Tabs : tabUrls[t] # NoUrl
    => LET T == EffectiveThreshold(store.settings)
           a == Classify(tabUrls[1], store.settings.trackedSites)
           b == Classify(tabUrls[2], store.settings.trackedSites)
       IN /\ last.op = "visit"
          /\ store.state \in {StreakStep(call.prior, a, T).state,
                              StreakStep(call.prior, b, T).state}
          /\ store.state = StreakStep(call.prior, last.site, T).state
          /\ store.state.currentCount >= 0
          /\ T >= 1 => store.state.currentCount <= T - 1

\* from (2, X) a visit of X and a non-tracked visit overlap and end in
\* (3, X); in order they give (0, none) or (1, X)
C13_Witness ==
    /\ call.fn = "prior"
    /\ events = 2
    /\ tasks = EmptyBag
    /\ call.prior.currentCount = 2
    /\ store.state = [currentCount |-> 3, lastSiteType |-> call.prior.lastSiteType]
    /\ \E t \in Tabs : /\ tabUrls[t] # NoUrl
                       /\ Classify(tabUrls[t], store.settings.trackedSites) = Null

\* C13 as stated: the final count differs by at most one from the count that
\* processing the two events one after the other gives, in one order or the other
C13_OffByAtMostOne ==
    /\ call.fn = "prior"
    /\ events = 2
    /\ tasks = EmptyBag
    /\ \A t \in Tabs : tabUrls[t] # NoUrl
    => LET T == EffectiveThreshold(store.settings)
           a == Classify(tabUrls[1], store.settings.trackedSites)
           b == Classify(tabUrls[2], store.settings.trackedSites)
           ab == StreakStep(StreakStep(call.prior, a, T).state, b, T).state.currentCount
           ba == StreakStep(StreakStep(call.prior, b, T).state, a, T).state.currentCount
           f  == store.state.currentCount
       IN \/ f - ab \in {-1, 0, 1}
          \/ f - ba \in {-1, 0, 1}

(***************************************************************************)
(* Properties of the pattern matcher and of the classifier                 *)
(***************************************************************************)
\* what a wildcard pattern is to accept: the candidate is the literal pieces
\* of the pattern in order, with any string, the empty one too, for each star
RECURSIVE GlobAccepts(_, _)
GlobAccepts(p, c) ==
    IF p = "" THEN c = ""
    ELSE IF Head(p) = "*"
         THEN \E k \in 0..Len(c) : GlobAccepts(Tail(p), SubSeq(c, k + 1, Len(c)))
         ELSE c # "" /\ Head(c) = Head(p) /\ GlobAccepts(Tail(p), Tail(c))

\* C15: for a pattern without a star the matcher accepts the candidate that
\* equals the pattern and no other string.
C15_StarFreePatternIsLiteral ==
    /\ call.fn = "test"
    /\ call.done
    /\ \A i \in 1..Len(call.pattern) : SubSeq(call.pattern, i, i) # "*"
    => (call.result = "accepts" <=> call.candidate = call.pattern)

C17_WwwNormalization ==
    /\ call.fn = "www"
    /\ call.done
    /\ SubSeq(call.sites[1].pattern, 1, Len(call.host)) = call.host
    => LET pathname == IF call.path = "" THEN "/" ELSE call.path
           accepted == GlobAccepts(call.sites[1].pattern, call.host \o pathname)
       IN /\ call.withWww = call.bare
          /\ call.bare = IF accepted THEN call.sites[1].id ELSE Null

\* www.tiktok.com/x and tiktok.com/x under tiktok.com/*
C17_Witness ==
    /\ call.fn = "www"
    /\ call.done
    /\ call.host = "tiktok.com"
    /\ call.path = "/x"
    /\ call.sites[1].pattern = "tiktok.com/*"
    /\ call.withWww = call.sites[1].id
    /\ call.bare = call.sites[1].id

\* C18: the classifier returns the id of the first rule of the list that is
\* enabled, has a non-empty pattern and accepts host + pathname or host
\* without www. + pathname; it returns none exactly when there is no such rule.
C18_FirstEnabledMatchWins ==
    call.fn = "getSiteType" /\ call.done =>
        LET u    == ParseUrl(call.url)
            hits == IF ~u.ok THEN {}
                    ELSE {i \in DOMAIN call.sites :
                            /\ call.sites[i].enabled
                            /\ call.sites[i].pattern # ""
                            /\ \/ GlobAccepts(call.sites[i].pattern, u.host \o u.pathname)
                               \/ GlobAccepts(call.sites[i].pattern,
                                              BareHost(u.host) \o u.pathname)}
        IN IF hits = {} THEN call.result = Null
           ELSE /\ call.result # Null
                /\ call.result = call.sites[CHOOSE i \in hits : \A j \in hits : i <= j].id

\* a disabled rule and a rule with an empty pattern are passed over and the
\* third rule, which matches, gives the answer
C18_Witness ==
    /\ call.fn = "getSiteType"
    /\ call.done
    /\ call.url = "https://www.tiktok.com/x"
    /\ Len(call.sites) = 3
    /\ ~call.sites[1].enabled
    /\ call.sites[2].pattern = ""
    /\ call.sites[3].id = "any"
    /\ call.result = "any"

\* C19: for the first enabled rule that matches, getSiteType returns the
\* rule's id, or its pattern when the rule has no id; it returns a falsy
\* value only when no rule matches.
C19_IdOrPattern ==
    call.fn = "getSiteType" /\ call.done =>
        LET u    == ParseUrl(call.url)
            hits == IF ~u.ok THEN {}
                    ELSE {i \in DOMAIN call.sites :
                            /\ call.sites[i].enabled
                            /\ call.sites[i].pattern # ""
                            /\ \/ GlobAccepts(call.sites[i].pattern, u.host \o u.pathname)
                               \/ GlobAccepts(call.sites[i].pattern,
                                              BareHost(u.host) \o u.pathname)}
        IN IF hits = {} THEN ~TruthyStr(call.result)
           ELSE LET site == call.sites[CHOOSE i \in hits : \A j \in hits : i <= j]
                IN call.result = IF site.id # "" THEN site.id ELSE site.pattern

\* C20: the handler of a navigation event whose URL does not parse gets none
\* from the classifier, no exception, and goes on as for a visit that matches
\* nothing: the presenter is not called, Idle is persisted and the settings
\* are saved back as read.
C20_UnparsableUrlIsNonMatch ==
    [][\A t \in BagToSet(tasks) :
          NavCallback(t) /\ ~ParseUrl(t.url).ok =>
             /\ last'.op = "visit"
             /\ last'.site = Null
             /\ ~last'.fired
             /\ store'.state = Idle
             /\ store'.settings = t.snap.settings]_vars

\* a URL without scheme ended a streak
C20_Witness ==
    /\ events = 1
    /\ tasks = EmptyBag
    /\ ~ParseUrl(tabUrls[1]).ok
    /\ last.op = "visit"
    /\ last.site = Null
    /\ last.read.currentCount >= 1
    /\ store.state = Idle

(***************************************************************************)
(* Properties of loading the configuration                                 *)
(***************************************************************************)
\* C21: under a stored threshold of 0 or below, the streak tracker acts as
\* under threshold 1: the first processed visit that matches a rule calls
\* the presenter and Idle is persisted.
C21_NonPositiveThresholdIsOne ==
    /\ call.fn = "load"
    /\ call.settings # Absent
    /\ "threshold" \in DOMAIN call.settings
    /\ call.settings.threshold <= 0
    /\ last.op = "visit"
    /\ TruthyStr(last.site)
    => /\ last.fired
       /\ store.state = Idle

\* the rule list the defaults give for stored settings: the stored list
\* when there is one that is not empty, the three default rules otherwise
C22_ExpectedSites(stored) ==
    IF stored # Absent /\ "trackedSites" \in DOMAIN stored /\ stored.trackedSites # <<>>
    THEN stored.trackedSites ELSE DEFAULT_SETTINGS.trackedSites

\* C22: when nothing is stored under settings, or the stored object lacks a
\* field, or its rule list is missing or empty, visits are classified with
\* the default rules and counted against the default threshold 10 in place of
\* what is missing, never with an empty rule list.
C22_MalformedConfigFallsBack ==
    call.fn = "load" /\ last.op = "visit" =>
        /\ last.site = getSiteType(tabUrls[1], C22_ExpectedSites(call.settings))
        /\ store.settings.trackedSites # <<>>
        /\ call.settings = Absent \/ "threshold" \notin DOMAIN call.settings
              => last.threshold = DefaultThreshold

\* C27: when nothing is stored under settings, or the stored settings have no
\* threshold, visits of one site type processed one after the other from
\* Idle are counted against threshold 10: none of the first 9 calls the
\* presenter and the 10th does.
C27_DefaultThresholdIsTen ==
    /\ call.fn = "load"
    /\ call.settings = Absent \/ "threshold" \notin DOMAIN call.settings
    /\ run # NoRun
    => /\ run.threshold = 10
       /\ run.k < 10 => /\ run.fires = 0
                        /\ store.state = [currentCount |-> run.k, lastSiteType |-> run.site]
       /\ run.k = 10 => /\ run.fires = 1
                        /\ store.state = Idle
                        /\ last.op = "visit" => last.fired

\* nothing was stored; the tenth visit of YouTube Shorts in a row has fired
C27_Witness ==
    /\ call.fn = "load"
    /\ call.settings = Absent
    /\ run.site = "youtube_shorts"
    /\ run.k = 10
    /\ run.fires = 1
    /\ last.op = "visit"
    /\ last.fired
    /\ last.read = [currentCount |-> 9, lastSiteType |-> "youtube_shorts"]
    /\ store.state = Idle

(***************************************************************************)
(* Properties of the handlers when an asynchronous call fails              *)
(***************************************************************************)
\* C23: a navigation event whose store read fails is processed with the
\* default settings (threshold 10, the three default rules) and with the
\* streak Idle, whatever earlier events did.
C23_FailedReadUsesDefaults ==
    last.op = "callback_read_failed" =>
        /\ last.read = Idle
        /\ last.threshold = 10
        /\ last.site = getSiteType(tabUrls[1], DEFAULT_SETTINGS.trackedSites)

\* the number of asynchronous calls of one kind that have not come back
PendingCalls(kind) ==
    Cardinality({t \in BagToSet(tasks) : t.kind = kind})

C25_FailedOpenIsNotRetried ==
    /\ out.calls = out.opened + out.failed + PendingCalls("alert")
    /\ last.op = "alert_failed" => PendingCalls("alert") = 0
    /\ last.op \in {"callback", "callback_read_failed"} /\ TruthyStr(last.site) =>
          LET c == IF last.read.lastSiteType = last.site
                   THEN last.read.currentCount + 1 ELSE 1
          IN c >= last.threshold =>
                /\ last.fired
                /\ last.wrote = Idle
                /\ PendingCalls("alert") = 1
                /\ \E t \in BagToSet(tasks) : t.kind = "save" /\ t.snap.state = Idle

\* after a failed chrome.tabs.create the next crossing has opened the tab
C25_Witness ==
    /\ out.failed = 1
    /\ out.opened = 1
    /\ out.calls = 2
    /\ out.asked = 0
    /\ last.op = "alert_opened"
    /\ store.state = Idle

\* C30: the alert tab of a navigation event is opened only after the streak
\* state of that event has been persisted: when it opens, the store does not
\* hold the streak the event has reset.
C30_PersistedBeforePresented ==
    last.op = "alert_opened" => store.state = Idle /\ store.state = last.wrote

\* the answers message id has received
RepliesTo(id) ==
    Cardinality({i \in DOMAIN out.replies : out.replies[i].id = id})

\* C26: every reset_counter, alert_acknowledged and test_alert message is
\* answered, in the end, with one { ok: boolean } and never with a second
\* one, also when its store read or write fails or no valid licence is stored.
C26_EveryMessageIsAnsweredOnce ==
    /\ [](\A id \in 1..MaxFaultEvents :
            /\ RepliesTo(id) <= 1
            /\ RepliesTo(id) = 1 => out.asked >= id)
    /\ [](\A i \in DOMAIN out.replies : out.replies[i].ok \in BOOLEAN)
    /\ \A id \in 1..MaxFaultEvents : (out.asked >= id) ~> (RepliesTo(id) = 1)

\* a message whose store read and store write both failed has its one answer
C26_Witness ==
    /\ last.op = "answered_save_failed"
    /\ ~last.readOk
    /\ out.asked = 1
    /\ RepliesTo(1) = 1
    /\ out.replies[1].ok
    /\ tasks = EmptyBag

(***************************************************************************)
(* Properties of the settings page                                         *)
(***************************************************************************)
\* C28: every stored rule has a non-empty id, and a save of the settings
\* page after edits of pattern texts only, also after an earlier save has
\* dropped a row with an empty pattern, gives the rule of every row that is
\* kept the id that rule had, and never the id of the rule of another row.
C28_IdsAreStable ==
    /\ \A i \in DOMAIN store.settings.trackedSites : store.settings.trackedSites[i].id # ""
    /\ page.open /\ page.saves > 0 =>
          \A n \in DOMAIN page.rows :
              page.ids[n] # "" =>
                 /\ page.ids[n] = page.rows[n].shows
                 /\ \A m \in DOMAIN page.rows : m # n => page.ids[n] # page.rows[m].shows

(***************************************************************************)
(* Properties of the stored licence                                        *)
(***************************************************************************)
\* C29: once clearLicense has completed, and until a key is activated again,
\* no licence is stored and hasValidLicense answers false, also when a
\* revalidation that hasValidLicense has started is still under way.
C29_ClearedLicenseStaysCleared ==
    call.fn = "clearLicense" /\ call.done =>
        /\ license = Absent
        /\ ~hasValidLicense(license)
(***************************************************************************)
(* Properties of overlapping handlers                                      *)
(***************************************************************************)
\* the streak after one visit of the page load on the streak the load found
OneVisit ==
    StreakStep(call.prior, Classify(call.url, store.settings.trackedSites),
               EffectiveThreshold(store.settings)).state

\* C31: when tabs.onUpdated and tabs.onActivated report the same page load
\* of one tab (same tab id, same URL), then however their two handlers
\* interleave at most one of them reaches the store, and the persisted
\* streak is the one the load found or that streak advanced by one visit.
C31_OverlappingReportsCountOnce ==
    /\ store.state \in {call.prior, OneVisit}
    /\ BagCardinality(tasks) <= 2
    /\ \A t \in BagToSet(tasks) : t.kind = "nav" => /\ CopiesIn(t, tasks) = 1
                                                    /\ store.state = call.prior
    /\ store.state # call.prior => \A t \in BagToSet(tasks) : t.kind = "await"

\* both listeners have reported the load, the second while the handler of the
\* first was still running, both handlers have finished and the streak has
\* advanced by one visit
C31_Witness ==
    /\ call.updated /\ call.activated /\ call.overlapped
    /\ tasks = EmptyBag
    /\ last.op = "duplicate"
    /\ call.prior.currentCount = 2
    /\ store.state = [call.prior EXCEPT !.currentCount = 3]

\* C32: while the threshold T in force stays the same (T >= 1), the persisted
\* currentCount is less than T in every reachable state, however navigation
\* events, control messages and their store callbacks interleave.
C32_CountStaysBelowThreshold ==
    store.state # Absent =>
        /\ EffectiveThreshold(MergedSettings(store.settings)) >= 1
        /\ store.state.currentCount < EffectiveThreshold(MergedSettings(store.settings))

\* a visit found the count one below a threshold of 3, its own visit reached
\* the threshold, and what it persisted is a count of 0
C32_Witness ==
    /\ last.op = "visit"
    /\ last.threshold = 3
    /\ last.read.currentCount = 2
    /\ last.fired
    /\ store.state.currentCount = 0
    /\ store.settings.threshold = 3

\* C33: once the settings page has saved changed settings the store holds
\* them, also after a navigation handler or a control-message handler that
\* read the store before the save has written.
C33_SavedSettingsAreKept ==
    call.fn = "saveSettings" => store.settings = call.settings

\* C34: a navigation event or control message whose store read failed leaves
\* the user's configuration in the store: when its write has come back the
\* persisted settings are settings the user has stored (here those the
\* behaviour started with, one of FaultSettings; the user saves no others).
C34_FailedReadKeepsSettings ==
    (~last.readOk /\ last.op \in {"saved", "answered"}) => store.settings \in FaultSettings

\* C35: when reset_counter or alert_acknowledged has been answered and no
\* navigation event has arrived since, the callback of a navigation handler
\* that read the store before the reset leaves the persisted state Idle.
C35_ResetIsNotUndone ==
    [][\A t \in BagToSet(tasks) :
          /\ last.op \in {"reset_counter", "alert_acknowledged"}
          /\ store.state = Idle
          /\ NavCallback(t)
          => store'.state = Idle]_vars

\* C36: reset_counter and alert_acknowledged answer ok: true only when the
\* Idle state has been written: the answer that follows a failed store write
\* is not ok: true.
C36_OkOnlyWhenWritten ==
    last.op = "answered_save_failed" =>
        /\ out.replies # <<>>
        /\ ~out.replies[Len(out.replies)].ok

(***************************************************************************)
(* Properties of the licence gate                                          *)
(***************************************************************************)
\* C37: while the stored licence is absent, invalid or expired, a navigation
\* event changes neither the store nor the map tabUrls and starts no handler,
\* no alert tab is opened, and each of the three control messages is answered
\* ok: false with the store and the map left as they are.
C37_NoLicenceNoTracking ==
    [][(license \in NoValidLicenses) =>
          /\ \A url \in LoadUrls :
                FaultVisit(url) => UNCHANGED <<store, DEFAULT_STATE, tabUrls, tasks, out>>
          /\ \A t \in BagToSet(tasks) :
                MessageLicensed(t) =>
                    /\ out' = Reply(t.id, FALSE)
                    /\ tasks' = tasks (-) SetToBag({t})
                    /\ UNCHANGED <<store, DEFAULT_STATE, tabUrls>>
          /\ \A t \in BagToSet(tasks), ok \in BOOLEAN :
                AlertDone(t, ok) => out' = out]_vars

\* the licence has gone while a streak of 1 was persisted; since then a
\* control message has been refused and a visit has been skipped, and the
\* streak and the map are as they were
C37_Witness ==
    /\ license \in NoValidLicenses
    /\ last.op = "nolicense"
    /\ \E i \in DOMAIN out.replies : ~out.replies[i].ok
    /\ store.state.currentCount = 1
    /\ tabUrls[1] # NoUrl
    /\ tasks = EmptyBag

(***************************************************************************)
(* Properties of rules that do not compile                                 *)
(***************************************************************************)
\* C38: a rule whose pattern new RegExp does not take is passed over: the
\* answer of getSiteType is the id of the first enabled rule whose pattern
\* compiles and accepts the URL, when there is one, whatever rules come
\* before it.
C38_BadRuleIsPassedOver ==
    call.fn = "getSiteType" /\ call.done =>
        LET u    == ParseUrl(call.url)
            hits == IF ~u.ok THEN {}
                    ELSE {i \in DOMAIN call.sites :
                            LET regex == wildcardToRegExp(call.sites[i].pattern) IN
                            /\ call.sites[i].enabled
                            /\ call.sites[i].pattern # ""
                            /\ regex.ok
                            /\ \/ RegexTest(regex, u.host \o u.pathname)
                               \/ RegexTest(regex, BareHost(u.host) \o u.pathname)}
        IN hits # {} =>
              call.result = call.sites[CHOOSE i \in hits : \A j \in hits : i <= j].id

(***************************************************************************)
(* Properties of the snooze generation                                     *)
(***************************************************************************)
\* the visit of getStorage callback t reaches the threshold: a tracked site
\* whose count, on the state the callback was handed, is at least the
\* threshold in force
CrossesThreshold(t) ==
    LET siteType == SnoozeSiteType(t.url, t.snap.settings.trackedSites)
        c        == IF t.snap.state.lastSiteType = siteType
                    THEN t.snap.state.currentCount + 1 ELSE 1
    IN /\ t.kind = "nav"
       /\ TruthyStr(siteType)
       /\ c >= EffectiveThreshold(t.snap.settings)

\* C39: in the snooze generation a visit that reaches the threshold either
\* calls triggerAlert once and leaves the credit 0 (when the handler found
\* snoozeCountRemaining = 0), or takes exactly one off the credit and does not
\* call triggerAlert (when it found it > 0); both persist the streak Idle.
\* The persisted snoozeCountRemaining is always within 0..20: alert_dismissed
\* persists 20, reset_counter and alert_acknowledged persist 0.
C39_SnoozeConsumesOneCredit ==
    /\ [](store.state.snoozeCountRemaining \in 0..SnoozeCredits)
    /\ [][/\ \A t \in BagToSet(tasks) :
                SnoozeCallback(t) /\ CrossesThreshold(t) =>
                    /\ store'.state.currentCount = 0
                    /\ store'.state.lastSiteType = Null
                    /\ IF t.snap.state.snoozeCountRemaining = 0
                       THEN /\ out'.calls = out.calls + 1
                            /\ store'.state.snoozeCountRemaining = 0
                       ELSE /\ out'.calls = out.calls
                            /\ store'.state.snoozeCountRemaining =
                                  t.snap.state.snoozeCountRemaining - 1
          /\ \A t \in BagToSet(tasks) :
                SnoozeMessageCallback(t) =>
                    store'.state.snoozeCountRemaining =
                        IF t.kind = "alert_dismissed" THEN SnoozeCredits ELSE 0]_vars

\* a visit that found the credit at 20, as alert_dismissed sets it, has
\* reached the threshold and has taken one off without raising the alert
C39_Witness ==
    /\ last.op = "snooze_visit"
    /\ last.read.snoozeCountRemaining = SnoozeCredits
    /\ store.state = SnoozeState(0, Null, SnoozeCredits - 1)
    /\ TruthyStr(last.site)
    /\ ~last.fired
    /\ out.calls = 0
    /\ \E i \in DOMAIN out.replies : out.replies[i].ok


=============================================================================
